---- MODULE Spec2Model ----
(***************************************************************************)
(* A model of the posterior composition (cuqi/problem.py), of the          *)
(* probability distributions it is composed from (cuqi/distribution.py),   *)
(* of the samplers it runs (cuqi.sampler), and of Samples (cuqi/samples.py)*)
(* with the geometries (cuqi/geometry/_geometry.py).                       *)
(*                                                                         *)
(* Conventions.                                                            *)
(*  - A Python object is a record; its attributes are the record's fields, *)
(*    and `cls` is its class.  Reading an attribute the object does not    *)
(*    have is Python's AttributeError.                                     *)
(*  - A vector is a function on 0 .. n-1 and a matrix a record             *)
(*    [m, n, a] with a on (0 .. m-1) \X (0 .. n-1): Python's 0-based       *)
(*    indices are kept.                                                    *)
(*  - A call is modelled by an operator that returns an outcome record:    *)
(*    exc is the exception that leaves the call ("none" when it returns).  *)
(*  - Real numbers the code obtains from log, sqrt or a factorization are  *)
(*    kept as the symbolic terms the code builds them from.                *)
(***************************************************************************)
EXTENDS Integers, Sequences, FiniteSets, TLC

\* BEGIN-ATTR
\* The attribute names of the records below, numbered in the order in which
\* every record lists them: one order throughout, so that a record is
\* written the way the model checker stores it.
Attributes ==
    [type |-> 0, cls |-> 1, m |-> 2, logscale |-> 3, logpi |-> 4,
     num |-> 5, pipow |-> 6, coef |-> 7, power |-> 8, kind |-> 9,
     op |-> 10, form |-> 11, Gaussian |-> 12, method |-> 13,
     location |-> 14, p |-> 15, mentions |-> 16, loc |-> 17,
     range_dim |-> 18, samples |-> 19, likelihood |-> 20,
     axis_labels |-> 21, logden |-> 22, terms |-> 23, den |-> 24,
     factors |-> 25, logargs |-> 26, base |-> 27, shape |-> 28, x |-> 29,
     of |-> 30, GMRF |-> 31, domain_dim |-> 32, prior |-> 33, grid |-> 34,
     norm1 |-> 35, v |-> 36, rate |-> 37, geometry |-> 38, n |-> 39,
     mean |-> 40, args |-> 41, reg |-> 42, Cauchy_diff |-> 43,
     target |-> 44, model |-> 45, variables |-> 46, par_shape |-> 47,
     n_steps |-> 48, nterms |-> 49, dtype |-> 50, a |-> 51, Ns |-> 52,
     std |-> 53, prec |-> 54, Laplace_diff |-> 55, proposal |-> 56,
     data |-> 57, ids |-> 58, par_dim |-> 59, fun2par_projection |-> 60,
     k |-> 61, fault |-> 62, R |-> 63, corrmat |-> 64, N |-> 65,
     Normal |-> 66, fun_shape |-> 67, indices |-> 68, Nb |-> 69,
     exc |-> 70, dom |-> 71, NoneType |-> 72, fun_dim |-> 73, scale |-> 74,
     Nt |-> 75, ret |-> 76, BCs |-> 77, Model |-> 78, x0 |-> 79,
     bndcond |-> 80, obj |-> 81, dim |-> 82, LinearModel |-> 83,
     built |-> 84, bnd |-> 85, Sigma |-> 86, self |-> 87, D |-> 88,
     det |-> 89, calls |-> 90, L |-> 91, draws |-> 92, rank |-> 93,
     route |-> 94, phase |-> 95, chol |-> 96, sampler |-> 97, i |-> 98,
     L_eigval |-> 99, run |-> 100, accepted |-> 101, acc |-> 102,
     logdet |-> 103, window |-> 104, chain |-> 105, Linv |-> 106,
     quadform |-> 107, last |-> 108, target_eval |-> 109, xi |-> 110]
\* END-ATTR

VARIABLES
    dist,     \* distribution.py: the distribution object last constructed
    dres,     \* distribution.py: outcome of the last constructor or method call
    bm,       \* problem.py: the BayesianModel (likelihood, prior, model, data)
    result,   \* problem.py: outcome of the last BayesianModel method call
    draws,    \* number of draws the last call took from numpy's generator
    mcmc,     \* cuqi.sampler: the state of a sampler run
    geo,      \* geometry / samples.py: the Samples or geometry object at hand
    gres      \* geometry / samples.py: outcome of the last operation on geo

vars == <<dist, dres, bm, result, draws, mcmc, geo, gres>>

(***************************************************************************)
(* Bounds of the model.                                                    *)
(***************************************************************************)
MaxDim == 5     \* longest location vector of Cauchy_diff / Laplace_diff
MaxN == 10      \* largest GMRF partition size
MaxNs == 6      \* largest number of samples requested

\* distribution.py:272: above this dimension the log-determinant is approximated
EigThreshold == 5000

(***************************************************************************)
(* Exceptions.  `mentions` is what the message (or the traceback line      *)
(* Python prints) names.                                                   *)
(***************************************************************************)
NoExc == [type |-> "none", mentions |-> {}]
Raise(t, names) == [type |-> t, mentions |-> names]

None == [cls |-> "NoneType"]

(***************************************************************************)
(* Vectors and matrices.                                                   *)
(***************************************************************************)
RECURSIVE SumTo(_, _)
SumTo(f, k) == IF k < 0 THEN 0 ELSE f[k] + SumTo(f, k - 1)

\* sum of a vector on 0 .. n-1
VSum(v, n) == SumTo(v, n - 1)

Abs(x) == IF x < 0 THEN -x ELSE x

ones(n) == [j \in 0 .. n - 1 |-> 1]
zeros(n) == [j \in 0 .. n - 1 |-> 0]

\* np.vstack([-one_vec, one_vec]): row 0 is -1, row 1 is +1
vstack2(r0, r1) == <<r0, r1>>

\* scipy.sparse.spdiags(data, locs, m, n): data[k][j] lies on diagonal locs[k]
\* in column j, that is at (j - locs[k], j), when that row exists
spdiags(data, locs, m, n) ==
    [m |-> m, n |-> n,
     a |-> [ij \in (0 .. m - 1) \X (0 .. n - 1) |->
              IF \E k \in 1 .. Len(locs) :
                    ij[2] - ij[1] = locs[k] /\ ij[2] \in DOMAIN data[k]
              THEN LET k == CHOOSE kk \in 1 .. Len(locs) :
                                ij[2] - ij[1] = locs[kk] /\ ij[2] \in DOMAIN data[kk]
                   IN data[k][ij[2]]
              ELSE 0]]

\* scipy.sparse.eye(n)
eye(n) ==
    [m |-> n, n |-> n,
     a |-> [ij \in (0 .. n - 1) \X (0 .. n - 1) |-> IF ij[1] = ij[2] THEN 1 ELSE 0]]

\* Dmat[i, j] = v with Python's negative indices counted from the end
setitem(A, i, j, v) ==
    LET r == IF i < 0 THEN i + A.m ELSE i
        c == IF j < 0 THEN j + A.n ELSE j
    IN [A EXCEPT !.a = [ij \in DOMAIN A.a |-> IF ij = <<r, c>> THEN v ELSE A.a[ij]]]

\* A @ x for a vector x of length A.n: a vector of length A.m
matvec(A, x) ==
    [i \in 0 .. A.m - 1 |-> VSum([j \in 0 .. A.n - 1 |-> A.a[<<i, j>>] * x[j]], A.n)]

\* A.T
transpose(A) ==
    [m |-> A.n, n |-> A.m,
     a |-> [ij \in (0 .. A.n - 1) \X (0 .. A.m - 1) |-> A.a[<<ij[2], ij[1]>>]]]

\* A @ B
matmul(A, B) ==
    [m |-> A.m, n |-> B.n,
     a |-> [ij \in (0 .. A.m - 1) \X (0 .. B.n - 1) |->
              VSum([k \in 0 .. A.n - 1 |-> A.a[<<ij[1], k>>] * B.a[<<k, ij[2]>>]], A.n)]]

\* len(v)
len(v) == Cardinality(DOMAIN v)

(***************************************************************************)
(* Cauchy_diff and Laplace_diff.                                           *)
(***************************************************************************)
BndConds == {"zero", "periodic", "neumann", "backward", "none"}

\* the finite difference matrix both constructors build; NoDmat when no
\* branch of the if/elif chain assigns Dmat
NoDmat == [m |-> -1, n |-> -1, a |-> <<>>]

\* A variant that gives the 'neumann' operator as many rows as columns, the
\* way GMRF builds its own; the row-count property tells the two apart.
DiffMatrix_square(dim, bndcond) ==
    LET one_vec == ones(dim)
        diags == vstack2([j \in 0 .. dim - 1 |-> -1], one_vec)
    IN CASE bndcond = "zero" ->
              spdiags(diags, <<-1, 0>>, dim + 1, dim)
         [] bndcond = "periodic" ->
              setitem(setitem(spdiags(diags, <<-1, 0>>, dim + 1, dim), -1, 0, 1),
                      0, -1, -1)
         [] bndcond = "neumann" ->
              setitem(spdiags(diags, <<0, 1>>, dim, dim), -1, -1, 0)
         [] bndcond = "backward" ->
              setitem(spdiags(diags, <<0, -1>>, dim, dim), 0, 0, 1)
         [] bndcond = "none" ->
              eye(dim)
         [] OTHER -> NoDmat

DiffMatrix(dim, bndcond) ==
    LET one_vec == ones(dim)
        diags == vstack2([j \in 0 .. dim - 1 |-> -1], one_vec)
    IN CASE bndcond = "zero" ->
              spdiags(diags, <<-1, 0>>, dim + 1, dim)
         [] bndcond = "periodic" ->
              setitem(setitem(spdiags(diags, <<-1, 0>>, dim + 1, dim), -1, 0, 1),
                      0, -1, -1)
         [] bndcond = "neumann" ->
              spdiags(diags, <<0, 1>>, dim - 1, dim)
         [] bndcond = "backward" ->
              setitem(spdiags(diags, <<0, -1>>, dim, dim), 0, 0, 1)
         [] bndcond = "none" ->
              eye(dim)
         [] OTHER -> NoDmat

\* `self.D = Dmat` with Dmat never assigned: UnboundLocalError, whose message
\* names the local variable Dmat
DiffInit(cls, location, scale, bndcond) ==
    LET dim == len(location)
        Dmat == DiffMatrix(dim, bndcond)
    IN IF Dmat = NoDmat
       THEN [exc |-> Raise("UnboundLocalError", {"Dmat"}), obj |-> None]
       ELSE [exc |-> NoExc,
             obj |-> [cls |-> cls, loc |-> location, scale |-> scale,
                      dim |-> dim, bnd |-> bndcond, D |-> Dmat]]

Cauchy_diff(location, scale, bndcond) == DiffInit("Cauchy_diff", location, scale, bndcond)

Laplace_diff(location, scale, bndcond) == DiffInit("Laplace_diff", location, scale, bndcond)

\* Dx = self.D @ (x - self.loc)
DiffDx(self, x) == matvec(self.D, [j \in DOMAIN x |-> x[j] - self.loc[j]])

\* Cauchy_diff.logpdf:
\*   -len(Dx)*log(pi) + sum(log(scale) - log(Dx**2 + scale**2))
\* kept as its terms: the coefficient of log(pi), and per difference the
\* arguments of the two logarithms
Cauchy_logpdf(self, x) ==
    LET Dx == DiffDx(self, x)
    IN [logpi |-> -len(Dx),
        terms |-> [i \in DOMAIN Dx |->
                     [logscale |-> self.scale,
                      logden |-> Dx[i] * Dx[i] + self.scale * self.scale]]]

\* Cauchy_diff.pdf: (1/pi**len(Dx)) * prod(scale/(Dx**2 + scale**2))
Cauchy_pdf(self, x) ==
    LET Dx == DiffDx(self, x)
    IN [pipow |-> -len(Dx),
        factors |-> [i \in DOMAIN Dx |->
                       [num |-> self.scale,
                        den |-> Dx[i] * Dx[i] + self.scale * self.scale]]]

\* Laplace_diff.logpdf: len(Dx)*(-(log 2 + log scale)) - norm1(Dx)/scale
Laplace_logpdf(self, x) ==
    LET Dx == DiffDx(self, x)
    IN [coef |-> -len(Dx), logargs |-> <<2, self.scale>>,
        norm1 |-> VSum([i \in DOMAIN Dx |-> Abs(Dx[i])], len(Dx)),
        nterms |-> len(Dx), scale |-> self.scale]

\* Laplace_diff.pdf: (1/(2*scale))**len(Dx) * exp(-norm1(Dx)/scale)
Laplace_pdf(self, x) ==
    LET Dx == DiffDx(self, x)
    IN [power |-> len(Dx), base |-> <<1, 2 * self.scale>>,
        norm1 |-> VSum([i \in DOMAIN Dx |-> Abs(Dx[i])], len(Dx)),
        nterms |-> len(Dx), scale |-> self.scale]

(***************************************************************************)
(* More matrix helpers.                                                    *)
(***************************************************************************)
\* np.diag(v) for a vector v of length n
diag(v, n) ==
    [m |-> n, n |-> n,
     a |-> [ij \in (0 .. n - 1) \X (0 .. n - 1) |-> IF ij[1] = ij[2] THEN v[ij[1]] ELSE 0]]

\* A + B
matadd(A, B) == [A EXCEPT !.a = [ij \in DOMAIN A.a |-> A.a[ij] + B.a[ij]]]

\* scipy.sparse.kron(A, B)
kron(A, B) ==
    [m |-> A.m * B.m, n |-> A.n * B.n,
     a |-> [ij \in (0 .. A.m * B.m - 1) \X (0 .. A.n * B.n - 1) |->
              A.a[<<ij[1] \div B.m, ij[2] \div B.n>>] * B.a[<<ij[1] % B.m, ij[2] % B.n>>]]]

\* scipy.sparse.vstack([A, B])
vstack(A, B) ==
    [m |-> A.m + B.m, n |-> A.n,
     a |-> [ij \in (0 .. A.m + B.m - 1) \X (0 .. A.n - 1) |->
              IF ij[1] < A.m THEN A.a[ij] ELSE B.a[<<ij[1] - A.m, ij[2]>>]]]

\* np.count_nonzero(R - np.diag(np.diagonal(R)))
offdiag_nonzero(R) == Cardinality({ij \in DOMAIN R.a : ij[1] # ij[2] /\ R.a[ij] # 0})

\* the function f, tabulated over its domain (f itself, value for value)
Dense(f) == f @@ [x \in {} |-> 0]

\* The pivots of Gaussian elimination without row exchanges, fraction free
\* (Bareiss): pivot k is the leading principal minor of order k+1.  A is the
\* entry function of an n x n matrix, prev the previous pivot.
RECURSIVE Minors(_, _, _, _)
Minors(A, n, k, prev) ==
    IF k >= n THEN <<>>
    ELSE LET p == A[<<k, k>>]
             B == Dense([ij \in (k + 1 .. n - 1) \X (k + 1 .. n - 1) |->
                           (p * A[ij] - A[<<ij[1], k>>] * A[<<k, ij[2]>>]) \div prev])
         IN IF p = 0 THEN <<0>>
            ELSE <<p>> \o Minors(B, n, k + 1, p)

LeadingMinors(A) == Minors(A.a, A.n, 0, 1)

\* np.linalg.det of an integer matrix
det(A) ==
    LET ms == LeadingMinors(A)
    IN IF A.n = 0 THEN 1 ELSE IF Len(ms) < A.n THEN 0 ELSE ms[A.n]

\* positive definite: every leading principal minor is positive
IsPosDef(A) ==
    LET ms == LeadingMinors(A)
    IN Len(ms) = A.n /\ \A k \in 1 .. A.n : ms[k] > 0

RECURSIVE ProdTo(_, _)
ProdTo(f, k) == IF k < 0 THEN 1 ELSE f[k] * ProdTo(f, k - 1)

RECURSIVE Pow(_, _)
Pow(b, e) == IF e <= 0 THEN 1 ELSE b * Pow(b, e - 1)

\* a numpy array known by its shape (and, where the code fixes it, its entries)
ndarray(shape, v) == [kind |-> "ndarray", shape |-> shape, v |-> v]

\* a callable (a forward model used as the mean of a likelihood)
Callable == [kind |-> "callable"]

callable(f) == f.kind = "callable"

(***************************************************************************)
(* Gaussian.                                                               *)
(***************************************************************************)
\* std when it is a list, tuple or ndarray, and when it is a scalar
StdArray(v) == [kind |-> "array", v |-> v]
StdScalar(s) == [kind |-> "scalar", v |-> s]

\* np.linalg.cholesky(S): the factor is kept as a term; LinAlgError when S is
\* not positive definite
cholesky(S) ==
    IF IsPosDef(S) THEN [exc |-> NoExc, ret |-> [op |-> "cholesky", of |-> S]]
    ELSE [exc |-> Raise("LinAlgError", {"Matrix is not positive definite"}), ret |-> None]

\* Gaussian.__init__(mean, std, corrmat)
Gaussian(mean, std, corrmat) ==
    LET dim == corrmat.n
        isarr == std.kind = "array"
        sv == IF isarr THEN std.v ELSE [j \in 0 .. dim - 1 |-> std.v]
        Sigma == matmul(diag(sv, dim), matmul(corrmat, diag(sv, dim)))
        isdiag == offdiag_nonzero(corrmat)
        L == cholesky(Sigma)
        detv == IF isdiag = 0
                THEN IF isarr THEN ProdTo([j \in 0 .. dim - 1 |-> sv[j] * sv[j]], dim - 1)
                     ELSE Pow(std.v, 2 * dim)
                ELSE IF isarr THEN det(Sigma)
                     ELSE Pow(std.v, 2 * dim) * det(corrmat)
        logdet == IF isdiag = 0
                  THEN IF isarr THEN [form |-> "sum(2*log(std))", of |-> sv]
                       ELSE [form |-> "2*dim*log(std)", of |-> sv]
                  ELSE [form |-> "2*sum(log(diag(L)))", of |-> Sigma]
    IN IF L.exc # NoExc THEN [exc |-> L.exc, obj |-> None]
       ELSE [exc |-> NoExc,
             obj |-> [cls |-> "Gaussian", mean |-> mean, std |-> std, R |-> corrmat,
                      dim |-> dim, Sigma |-> Sigma, det |-> detv, L |-> L.ret,
                      logdet |-> logdet, Linv |-> [op |-> "inv", of |-> L.ret]]]

\* Gaussian.sample(N): np.random.multivariate_normal(mean, Sigma, N).T
Gaussian_sample(self, N) ==
    IF callable(self.mean)
    THEN [exc |-> Raise("TypeError", {"mean"}), ret |-> None, self |-> self,
          draws |-> 0]
    ELSE [exc |-> NoExc, ret |-> ndarray(<<self.dim, N>>, "random"), self |-> self,
          draws |-> self.dim * N]

\* A variant of logpdf that keeps the evaluated mean on the object.
Gaussian_logpdf_keepmu(self, x1, x2) ==
    IF callable(self.mean) /\ Len(x2) = 0
    THEN [exc |-> Raise("IndexError", {"tuple index out of range"}), ret |-> None,
          self |-> self]
    ELSE LET mu == IF callable(self.mean) THEN ndarray(<<self.dim>>, x2[1])
                   ELSE self.mean
         IN [exc |-> NoExc,
             ret |-> [op |-> "Gaussian.logpdf", x |-> x1, mean |-> mu,
                      dim |-> self.dim, logdet |-> self.logdet, Linv |-> self.Linv],
             self |-> [self EXCEPT !.mean = mu]]

\* Gaussian.logpdf(x1, *x2):
\*   -0.5*(logdet + sum(square((x1 - mu) @ Linv.T)) + dim*log(2*pi))
\* kept as its terms; mu is mean(x2[0]) for a callable mean (the forward
\* model applied to x2[0], here a map that returns its argument) and the
\* stored mean otherwise
Gaussian_logpdf(self, x1, x2) ==
    IF callable(self.mean) /\ Len(x2) = 0
    THEN [exc |-> Raise("IndexError", {"tuple index out of range"}), ret |-> None,
          self |-> self]
    ELSE LET mu == IF callable(self.mean) THEN ndarray(<<self.dim>>, x2[1])
                   ELSE self.mean
         IN [exc |-> NoExc,
             ret |-> [op |-> "Gaussian.logpdf", x |-> x1, mean |-> mu,
                      dim |-> self.dim, logdet |-> self.logdet, Linv |-> self.Linv],
             self |-> self]

\* Gaussian.pdf(x1, *x2): np.exp(self.logpdf(x1, *x2))
Gaussian_pdf(self, x1, x2) ==
    LET y == Gaussian_logpdf(self, x1, x2)
    IN IF y.exc # NoExc THEN y
       ELSE [exc |-> NoExc, ret |-> [op |-> "exp", of |-> y.ret], self |-> y.self]

(***************************************************************************)
(* GMRF, a subclass of Gaussian whose constructor does not call the        *)
(* constructor of Gaussian.                                                *)
(***************************************************************************)
GMRF_BCs == {"zero", "periodic", "neumann", "none"}

\* A variant of the 1D difference matrix whose 'neumann' branch leaves the
\* last row in place (no Dmat[-1, -1] = 0).
GMRF_Dmat_lastRow(N, BCs) ==
    LET one_vec == ones(N)
        dgn == vstack2([j \in 0 .. N - 1 |-> -1], one_vec)
    IN CASE BCs = "zero" ->
              spdiags(dgn, <<-1, 0>>, N + 1, N)
         [] BCs = "periodic" ->
              setitem(setitem(spdiags(dgn, <<-1, 0>>, N + 1, N), -1, 0, 1), 0, -1, -1)
         [] BCs = "neumann" ->
              spdiags(dgn, <<0, 1>>, N, N)
         [] BCs = "none" ->
              eye(N)
         [] OTHER -> NoDmat

\* the 1D difference matrix of GMRF.__init__
GMRF_Dmat(N, BCs) ==
    LET one_vec == ones(N)
        dgn == vstack2([j \in 0 .. N - 1 |-> -1], one_vec)
    IN CASE BCs = "zero" ->
              spdiags(dgn, <<-1, 0>>, N + 1, N)
         [] BCs = "periodic" ->
              setitem(setitem(spdiags(dgn, <<-1, 0>>, N + 1, N), -1, 0, 1), 0, -1, -1)
         [] BCs = "neumann" ->
              setitem(spdiags(dgn, <<0, 1>>, N, N), -1, -1, 0)
         [] BCs = "none" ->
              eye(N)
         [] OTHER -> NoDmat

\* sparse_cholesky(A): LU without pivoting; TypeError unless every pivot is
\* positive.  A is base + reg*sqrt(eps)*I with base an integer matrix: a pivot
\* of the regularized matrix is positive when the minor of base is, and also
\* when that minor is 0 and the minors before it are positive (the perturbation
\* then decides the sign).
sparse_cholesky(base, reg) ==
    LET ms == LeadingMinors(base)
        ok == \A k \in 1 .. Len(ms) : ms[k] > 0 \/ (reg /\ ms[k] = 0 /\ k = base.n)
    IN IF Len(ms) = base.n /\ ok
       THEN [exc |-> NoExc, ret |-> [op |-> "sparse_cholesky", of |-> base, reg |-> reg]]
       ELSE [exc |-> Raise("TypeError", {"The matrix is not positive semi-definite"})]

\* A variant of the choice below that approximates from dimension 5000 on.
logdet_method_from(BCs, dim) ==
    IF BCs = "zero" THEN "cholesky"
    ELSE IF dim >= EigThreshold THEN "cholesky" ELSE "eigsh"

\* how GMRF.__init__ obtains logdet: from the diagonal of the Cholesky factor
\* for 'zero', and for 'periodic'/'neumann' when dim > 5000; from the
\* eigenvalues that eigsh returns otherwise
logdet_method(BCs, dim) ==
    IF BCs = "zero" THEN "cholesky"
    ELSE IF dim > EigThreshold THEN "cholesky" ELSE "eigsh"

\* GMRF.__init__(mean, prec, N, dom, BCs), dom in {1, 2}.  `built` names the
\* matrices and factorizations computed before the constructor returned or raised.
GMRF(mean, prec, N, dom, BCs) ==
    LET Dmat == GMRF_Dmat(N, BCs)
        I == eye(N)
        Ds == kron(I, Dmat)
        Dt == kron(Dmat, I)
        dim == IF dom = 1 THEN N ELSE N * N
        D == IF dom = 1 THEN Dmat ELSE vstack(Ds, Dt)
        L == IF dom = 1 THEN matmul(transpose(Dmat), Dmat)
             ELSE matadd(matmul(transpose(Ds), Ds), matmul(transpose(Dt), Dt))
        mean_ == ndarray(<<len(mean), 1>>, mean)
        chol == sparse_cholesky(L, BCs # "zero")
    IN IF BCs \notin GMRF_BCs
       THEN [exc |-> Raise("TypeError", {"BC"}), obj |-> None, built |-> {}]
       ELSE IF BCs = "none"
       THEN [exc |-> NoExc,
             obj |-> [cls |-> "GMRF", mean |-> mean_, prec |-> prec, N |-> N,
                      BCs |-> BCs, dim |-> dim, D |-> D, L |-> L],
             built |-> {"D", "L"}]
       ELSE IF chol.exc # NoExc
       THEN [exc |-> chol.exc, obj |-> None, built |-> {"D", "L"}]
       ELSE IF BCs = "zero"
       THEN [exc |-> NoExc,
             obj |-> [cls |-> "GMRF", mean |-> mean_, prec |-> prec, N |-> N,
                      BCs |-> BCs, dim |-> dim, D |-> D, L |-> L,
                      rank |-> dim, chol |-> chol.ret,
                      logdet |-> [form |-> "2*sum(log(diag(chol)))", of |-> L]],
             built |-> {"D", "L", "chol"}]
       ELSE IF logdet_method(BCs, dim) = "cholesky"
       THEN [exc |-> NoExc,
             obj |-> [cls |-> "GMRF", mean |-> mean_, prec |-> prec, N |-> N,
                      BCs |-> BCs, dim |-> dim, D |-> D, L |-> L,
                      rank |-> dim - 1, chol |-> chol.ret,
                      logdet |-> [form |-> "2*sum(log(diag(chol)))", of |-> L]],
             built |-> {"D", "L", "chol"}]
       ELSE [exc |-> NoExc,
             obj |-> [cls |-> "GMRF", mean |-> mean_, prec |-> prec, N |-> N,
                      BCs |-> BCs, dim |-> dim, D |-> D, L |-> L,
                      rank |-> dim - 1, chol |-> chol.ret,
                      L_eigval |-> [op |-> "eigsh", of |-> L, k |-> dim - 1],
                      logdet |-> [form |-> "sum(log(L_eigval))", of |-> L]],
             built |-> {"D", "L", "chol", "L_eigval"}]

\* GMRF.__init__(mean, prec, N, 1, BCs) for a partition too large to write
\* the matrices out: D and L are kept as the expressions that build them
\* (D with its shape), and the factorization of L + sqrt(eps)*I is taken to
\* succeed.
GMRF_large(mean, prec, N, BCs) ==
    LET mean_ == ndarray(<<len(mean), 1>>, mean)
        D == [m |-> IF BCs \in {"zero", "periodic"} THEN N + 1 ELSE N, n |-> N,
              a |-> "Dmat"]
        L == [m |-> N, n |-> N, a |-> "Dmat.T @ Dmat"]
        chol == [op |-> "sparse_cholesky", of |-> L, reg |-> BCs # "zero"]
    IN IF BCs \notin GMRF_BCs
       THEN [exc |-> Raise("TypeError", {"BC"}), obj |-> None, built |-> {}]
       ELSE IF BCs = "none"
       THEN [exc |-> NoExc,
             obj |-> [cls |-> "GMRF", mean |-> mean_, prec |-> prec, N |-> N,
                      BCs |-> BCs, dim |-> N, D |-> D, L |-> L],
             built |-> {"D", "L"}]
       ELSE IF BCs = "zero"
       THEN [exc |-> NoExc,
             obj |-> [cls |-> "GMRF", mean |-> mean_, prec |-> prec, N |-> N,
                      BCs |-> BCs, dim |-> N, D |-> D, L |-> L,
                      rank |-> N, chol |-> chol,
                      logdet |-> [form |-> "2*sum(log(diag(chol)))", of |-> L]],
             built |-> {"D", "L", "chol"}]
       ELSE IF logdet_method(BCs, N) = "cholesky"
       THEN [exc |-> NoExc,
             obj |-> [cls |-> "GMRF", mean |-> mean_, prec |-> prec, N |-> N,
                      BCs |-> BCs, dim |-> N, D |-> D, L |-> L,
                      rank |-> N - 1, chol |-> chol,
                      logdet |-> [form |-> "2*sum(log(diag(chol)))", of |-> L]],
             built |-> {"D", "L", "chol"}]
       ELSE [exc |-> NoExc,
             obj |-> [cls |-> "GMRF", mean |-> mean_, prec |-> prec, N |-> N,
                      BCs |-> BCs, dim |-> N, D |-> D, L |-> L,
                      rank |-> N - 1, chol |-> chol,
                      L_eigval |-> [op |-> "eigsh", of |-> L, k |-> N - 1],
                      logdet |-> [form |-> "sum(log(L_eigval))", of |-> L]],
             built |-> {"D", "L", "chol", "L_eigval"}]

\* scipy's spsolve(A, b) returns a 1-D array when b has one column
spsolve_shape(n, Ns) == IF Ns = 1 THEN <<n>> ELSE <<n, Ns>>

\* numpy broadcasting of the (dim, 1) mean against the solve's result
mean_plus(dim, shape) == IF Len(shape) = 1 THEN <<dim, shape[1]>> ELSE shape


\* GMRF.logpdf(x) for a column x:
\*   0.5*(rank*(log(prec) - log(2*pi)) + logdet) - 0.5*prec*((x-mean).T @ L @ (x-mean))
\* kept as its terms; rank is the first attribute read, logdet the second
GMRF_logpdf(self, x) ==
    LET d == [j \in DOMAIN x |-> x[j] - self.mean.v[j]]
        Ld == matvec(self.L, d)
    IN IF "rank" \notin DOMAIN self
       THEN [exc |-> Raise("AttributeError", {"rank"}), ret |-> None]
       ELSE IF "logdet" \notin DOMAIN self
       THEN [exc |-> Raise("AttributeError", {"logdet"}), ret |-> None]
       ELSE [exc |-> NoExc,
             ret |-> [op |-> "GMRF.logpdf", prec |-> self.prec, rank |-> self.rank,
                      logdet |-> self.logdet,
                      quadform |-> VSum([j \in DOMAIN d |-> d[j] * Ld[j]], len(d))]]

\* GMRF.pdf(x): np.exp(self.logpdf(x))
GMRF_pdf(self, x) ==
    LET y == GMRF_logpdf(self, x)
    IN IF y.exc # NoExc THEN y
       ELSE [exc |-> NoExc, ret |-> [op |-> "exp", of |-> y.ret]]

\* A variant that samples as for 'zero' whatever the boundary condition
\* instead of raising: the draw is taken before the factor is read.
GMRF_sample_fallback(self, Ns) ==
    IF "chol" \in DOMAIN self
    THEN [exc |-> NoExc,
          ret |-> ndarray(mean_plus(self.dim, spsolve_shape(self.dim, Ns)), "random"),
          draws |-> self.dim * Ns]
    ELSE [exc |-> Raise("AttributeError", {"chol"}),
          ret |-> None,
          draws |-> self.dim * Ns]

\* GMRF.sample(Ns)
GMRF_sample(self, Ns) ==
    CASE self.BCs = "zero" ->
           [exc |-> NoExc,
            ret |-> ndarray(mean_plus(self.dim, spsolve_shape(self.dim, Ns)), "random"),
            draws |-> self.dim * Ns]
      [] self.BCs = "periodic" ->
           IF "L_eigval" \in DOMAIN self
           THEN [exc |-> NoExc,
                 ret |-> ndarray(mean_plus(self.dim, spsolve_shape(self.dim, Ns)), "random"),
                 draws |-> 2 * self.dim * Ns]
           ELSE [exc |-> Raise("AttributeError", {"L_eigval"}),
                 ret |-> None,
                 draws |-> 2 * self.dim * Ns]
      [] self.BCs = "neumann" ->
           [exc |-> NoExc,
            ret |-> ndarray(mean_plus(self.dim, spsolve_shape(self.dim, Ns)), "random"),
            draws |-> self.D.m * Ns]
      [] OTHER ->
           [exc |-> Raise("TypeError", {"BC"}), ret |-> None, draws |-> 0]

(***************************************************************************)
(* Normal (used below as a distribution that is no Gaussian).              *)
(***************************************************************************)
\* Normal.__init__(mean, std) for a vector mean
Normal(mean, std) == [cls |-> "Normal", mean |-> mean, std |-> std, dim |-> len(mean)]

\* Normal.sample(N): np.random.normal(mean, std, (N, dim))
Normal_sample(self, N) ==
    [exc |-> NoExc, ret |-> ndarray(<<N, self.dim>>, "random"), draws |-> N * self.dim]

(***************************************************************************)
(* Gamma.                                                                  *)
(***************************************************************************)
\* Gamma.__init__(shape, rate)
Gamma(shape, rate) ==
    [cls |-> "Gamma", shape |-> shape, rate |-> rate,
     scale |-> [op |-> "1/", of |-> rate]]

\* Gamma.sample(N): np.random.gamma(shape=shape, scale=scale, size=(N))
Gamma_sample(self, N) ==
    [exc |-> NoExc, ret |-> ndarray(<<N>>, "random"), draws |-> N]

(***************************************************************************)
(* The sampling entry points and their parameters.  Every array they       *)
(* return is drawn from the process-wide generator np.random, written      *)
(* "random" in the arrays above.                                           *)
(***************************************************************************)
\* the parameters besides self of def sample(...) / def sample_posterior(...)
sample_params(cls) ==
    CASE cls = "Normal" -> {"N"}
      [] cls = "Gamma" -> {"N"}
      [] cls = "Gaussian" -> {"N"}
      [] cls = "GMRF" -> {"Ns"}
      [] cls = "BayesianModel" -> {"Ns"}

\* the call self.sample(n, kw=handle): Python binds the arguments before the
\* body runs and raises TypeError for a keyword that is no parameter, and
\* for a parameter given both by position and by keyword
sample_kw(self, n, kw) ==
    IF kw \notin sample_params(self.cls)
    THEN [exc |-> Raise("TypeError", {"unexpected keyword argument", kw}),
          ret |-> None, draws |-> 0]
    ELSE [exc |-> Raise("TypeError", {"multiple values for argument", kw}),
          ret |-> None, draws |-> 0]

(***************************************************************************)
(* The collaborators of problem.py: the forward model (cuqi.model), the    *)
(* samplers (cuqi.sampler) and the Samples container.                      *)
(***************************************************************************)
\* the classes each class is an instance of
Bases ==
    [Gaussian |-> {"Gaussian"}, GMRF |-> {"GMRF", "Gaussian"},
     Cauchy_diff |-> {"Cauchy_diff"}, Laplace_diff |-> {"Laplace_diff"},
     Normal |-> {"Normal"}, NoneType |-> {"NoneType"},
     Model |-> {"Model"}, LinearModel |-> {"LinearModel", "Model"}]

isinstance(o, c) == c \in Bases[o.cls]

type(o) == o.cls

\* a forward model from R^n to R^n: LinearModel(A) and a non-linear Model
LinearModel(n) == [cls |-> "LinearModel", range_dim |-> n, domain_dim |-> n]
Model(n) == [cls |-> "Model", range_dim |-> n, domain_dim |-> n]

\* the calls that an injected failure can make raise, and "none"
Faults ==
    {"none", "get_matrix", "solve", "cholesky", "likelihood.logpdf(data, x)",
     "prior.logpdf(x)", "prior.sample"}

\* the error an injected failure raises at the named call
Injected(where) == Raise("Exception", {where})

\* model.get_matrix(): only a LinearModel has it
get_matrix(model, fault) ==
    IF ~isinstance(model, "LinearModel")
    THEN [exc |-> Raise("AttributeError", {"get_matrix"}), ret |-> None]
    ELSE IF fault = "get_matrix"
    THEN [exc |-> Injected("get_matrix"), ret |-> None]
    ELSE [exc |-> NoExc, ret |-> ndarray(<<model.range_dim, model.domain_dim>>, "A")]

\* Samples.__init__(samples, geometry=None)
Samples(samples, geometry) ==
    [cls |-> "Samples", samples |-> samples, geometry |-> geometry]

\* cuqi.sampler.CWMH(target, proposal, scale, x0)
CWMH(target, proposal, scale, x0) ==
    [cls |-> "CWMH", target |-> target, proposal |-> proposal, scale |-> scale, x0 |-> x0]

\* cuqi.sampler.pCN(prior, target, scale, x0)
pCN(prior, target, scale, x0) ==
    [cls |-> "pCN", prior |-> prior, target |-> target, scale |-> scale, x0 |-> x0]

\* One evaluation of a target, a sequence of the logpdf terms it adds up:
\* the calls it makes, and the exception that leaves it.
\*   likelihood.logpdf(data, x): GMRF.logpdf takes x alone, so the second
\*   argument is a TypeError; Gaussian.logpdf(x1, *x2) accepts it.
RECURSIVE target_eval(_, _, _)
target_eval(self, target, fault) ==
    IF target = <<>> THEN [exc |-> NoExc, calls |-> <<>>]
    ELSE LET t == Head(target)
             e == IF t = "likelihood.logpdf(data, x)" /\ type(self.likelihood) = "GMRF"
                  THEN Raise("TypeError", {"logpdf"})
                  ELSE IF fault = t THEN Injected(t)
                  ELSE NoExc
             rest == target_eval(self, Tail(target), fault)
         IN IF e # NoExc THEN [exc |-> e, calls |-> <<t>>]
            ELSE [exc |-> rest.exc, calls |-> <<t>> \o rest.calls]

\* prior.sample(1) as the pCN sampler calls it
prior_sample(prior, fault) ==
    IF fault = "prior.sample" THEN [exc |-> Injected("prior.sample"), draws |-> 0]
    ELSE IF type(prior) = "GMRF"
    THEN LET r == GMRF_sample(prior, 1) IN [exc |-> r.exc, draws |-> r.draws]
    ELSE LET r == Gaussian_sample(prior, 1) IN [exc |-> r.exc, draws |-> r.draws]

\* CWMH.sample_adapt(Ns, Nb): the target is evaluated at the initial state and
\* then once per coordinate and iteration (a normal proposal and a uniform
\* draw each); an exception of the target leaves the sampler.  Returns
\* (x_s, target_eval, acc) with x_s of shape (dim, Ns).
CWMH_sample_adapt(MCMC, self, Ns, Nb, fault) ==
    LET n == len(MCMC.x0)
        t == target_eval(self, MCMC.target, fault)
    IN IF t.exc # NoExc
       THEN [exc |-> t.exc, ret |-> None, calls |-> t.calls, draws |-> 0]
       ELSE [exc |-> NoExc, ret |-> ndarray(<<n, Ns>>, "chain"),
             calls |-> t.calls, draws |-> 2 * n * Ns]

\* pCN.sample(Ns, Nb): the target is evaluated at the initial state; every
\* iteration draws one prior sample, evaluates the target at the proposal and
\* draws one uniform number.  Returns (x_s, target_eval, acc).
pCN_sample(MCMC, self, Ns, Nb, fault) ==
    LET n == len(MCMC.x0)
        t == target_eval(self, MCMC.target, fault)
        p == prior_sample(MCMC.prior, fault)
    IN IF t.exc # NoExc
       THEN [exc |-> t.exc, ret |-> None, calls |-> t.calls, draws |-> 0]
       ELSE IF Ns > 0 /\ p.exc # NoExc
       THEN [exc |-> p.exc, ret |-> None, calls |-> t.calls \o <<"prior.sample">>,
             draws |-> 0]
       ELSE [exc |-> NoExc, ret |-> ndarray(<<n, Ns>>, "chain"),
             calls |-> IF Ns > 0 THEN t.calls \o <<"prior.sample">> \o t.calls ELSE t.calls,
             draws |-> (p.draws + 1) * Ns]

(***************************************************************************)
(* BayesianModel (problem.py).  The outcome of a method call:              *)
(*   exc      the exception that leaves the call, NoExc when it returns    *)
(*   ret      the value returned (None when it raises)                     *)
(*   self     the BayesianModel, and the objects it refers to, afterwards  *)
(*   calls    the calls made to collaborators, in order (the repetitions   *)
(*            of a sampler's loop are recorded once)                       *)
(*   draws    the draws taken from numpy's generator                       *)
(*   route    the strategy sample_posterior dispatched to                  *)
(*   sampler  the iterative sampler constructed (None when none was)       *)
(*   run      the method of the sampler that was called, with Ns and Nb    *)
(* The numbers 0.05, 0.5 and 0.02 are kept in hundredths.                  *)
(***************************************************************************)
ScaleCWMH == 5
X0CWMH == 50
ScalePCN == 2
UQNs == 5000

NoRun == [method |-> "none", Ns |-> 0, Nb |-> 0]

BMOut(exc, ret, self, calls, nd, route, sampler, run) ==
    [exc |-> exc, ret |-> ret, self |-> self, calls |-> calls, draws |-> nd,
     route |-> route, sampler |-> sampler, run |-> run]

\* BayesianModel.__init__(likelihood, prior, model, data)
BayesianModel(likelihood, prior, model, data) ==
    [cls |-> "BayesianModel", likelihood |-> likelihood, prior |-> prior,
     model |-> model, data |-> data]

\* BayesianModel._check(distL, distP, typeModel=None); "None" is the default
check(self, distL, distP, typeModel) ==
    LET L == isinstance(self.likelihood, distL)
        P == isinstance(self.prior, distP)
        M == IF typeModel = "None" THEN TRUE ELSE isinstance(self.model, typeModel)
    IN L /\ P /\ M

\* the f-string of both NotImplementedErrors names the three types
NotImplemented(self) ==
    Raise("NotImplementedError",
          {<<"model", type(self.model)>>, <<"likelihood", type(self.likelihood)>>,
           <<"prior", type(self.prior)>>})

\* A variant of the condition of MAP's if that leaves the model unchecked.
MAP_guard_anyModel(self) == check(self, "Gaussian", "Gaussian", "None")

\* the condition of MAP's if
MAP_guard(self) == check(self, "Gaussian", "Gaussian", "LinearModel")

\* A variant of the return statement that adds to x0 in place (x0 += ...):
\* prior.mean then holds the estimate, a vector other than the mean it held.
MAP_return_inplace(self, calls) ==
    BMOut(NoExc, ndarray(<<self.prior.dim>>, "x_map"),
          [self EXCEPT !.prior.mean.v = [j \in DOMAIN @ |-> @[j] + 1]],
          calls, 0, "none", None, NoRun)

\* return x0 + Cx@(A.T@np.linalg.solve(sysm,rhs)): a new array
MAP_return(self, calls) ==
    BMOut(NoExc, ndarray(<<self.prior.dim>>, "x_map"), self, calls, 0, "none", None, NoRun)

\* BayesianModel.MAP()
MAP(self, fault) ==
    LET A == get_matrix(self.model, fault)
        fail(e, calls) == BMOut(e, None, self, calls, 0, "none", None, NoRun)
    IN IF ~MAP_guard(self) THEN fail(NotImplemented(self), <<>>)
       ELSE IF A.exc # NoExc THEN fail(A.exc, <<"get_matrix">>)
       ELSE IF "Sigma" \notin DOMAIN self.likelihood
       THEN fail(Raise("AttributeError", {"Sigma"}), <<"get_matrix">>)
       ELSE IF "mean" \notin DOMAIN self.prior
       THEN fail(Raise("AttributeError", {"mean"}), <<"get_matrix">>)
       ELSE IF "Sigma" \notin DOMAIN self.prior
       THEN fail(Raise("AttributeError", {"Sigma"}), <<"get_matrix">>)
       ELSE IF fault = "solve"
       THEN fail(Injected("solve"), <<"get_matrix", "solve">>)
       ELSE MAP_return(self, <<"get_matrix", "solve">>)

\* the loop of _sampleMapCholesky and what follows it: n draws per sample;
\* `s` is bound by the loop, so print(..., s+1, ...) after a loop that never
\* ran is an UnboundLocalError
MapCholesky_loop(self, Ns, calls) ==
    LET n == self.prior.dim
    IN IF Ns = 0
       THEN BMOut(Raise("UnboundLocalError", {"s"}), None, self, calls, 0,
                  "closed-form", None, NoRun)
       ELSE BMOut(NoExc, Samples(ndarray(<<n, Ns>>, "x_s"), None), self, calls, n * Ns,
                  "closed-form", None, NoRun)

\* BayesianModel._sampleMapCholesky(Ns)
sampleMapCholesky(self, Ns, fault) ==
    LET A == get_matrix(self.model, fault)
        x_map == MAP(self, fault)
        fail(e, calls) == BMOut(e, None, self, calls, 0, "closed-form", None, NoRun)
        c1 == <<"get_matrix">>
        c2 == c1 \o x_map.calls
        c3 == c2 \o <<"inv", "inv", "inv", "cholesky">>
    IN IF A.exc # NoExc THEN fail(A.exc, c1)
       ELSE IF "Sigma" \notin DOMAIN self.likelihood
       THEN fail(Raise("AttributeError", {"Sigma"}), c1)
       ELSE IF "mean" \notin DOMAIN self.prior
       THEN fail(Raise("AttributeError", {"mean"}), c1)
       ELSE IF "Sigma" \notin DOMAIN self.prior
       THEN fail(Raise("AttributeError", {"Sigma"}), c1)
       ELSE IF x_map.exc # NoExc THEN fail(x_map.exc, c2)
       ELSE IF fault = "cholesky" THEN fail(Injected("cholesky"), c3)
       ELSE MapCholesky_loop(x_map.self, Ns, c3)

\* A variant of the burn-in: int(0.25*Ns)
int_025(Ns) == (25 * Ns) \div 100

\* int(0.2*Ns) for Ns >= 0: the double 0.2 is a little above 1/5 and the
\* product is rounded to a double that is never below the integer Ns/5 when 5
\* divides Ns, so the truncation is that of the exact product
int_02(Ns) == (2 * Ns) \div 10

\* A variant of _sampleCWMH that catches what the sampler raises and returns
\* the chain preallocated so far.
sampleCWMH_swallow(self, Ns, fault) ==
    LET n == self.prior.dim
        target == <<"likelihood.logpdf(data, x)", "prior.logpdf(x)">>
        scale == [j \in 0 .. n - 1 |-> ScaleCWMH * ones(n)[j]]
        x0 == [j \in 0 .. n - 1 |-> X0CWMH * ones(n)[j]]
        MCMC == CWMH(target, "np.random.normal(x_t, sigma)", scale, x0)
        Nb == (2 * Ns) \div 10
        run == [method |-> "sample_adapt", Ns |-> Ns, Nb |-> Nb]
        r == CWMH_sample_adapt(MCMC, self, Ns, Nb, fault)
    IN BMOut(NoExc, Samples(IF r.exc # NoExc THEN ndarray(<<n, Ns>>, "partial") ELSE r.ret,
                            None),
             self, r.calls, r.draws, "CWMH", MCMC, run)

\* BayesianModel._sampleCWMH(Ns)
sampleCWMH(self, Ns, fault) ==
    LET n == self.prior.dim
        target == <<"likelihood.logpdf(data, x)", "prior.logpdf(x)">>
        scale == [j \in 0 .. n - 1 |-> ScaleCWMH * ones(n)[j]]
        x0 == [j \in 0 .. n - 1 |-> X0CWMH * ones(n)[j]]
        MCMC == CWMH(target, "np.random.normal(x_t, sigma)", scale, x0)
        Nb == int_02(Ns)
        run == [method |-> "sample_adapt", Ns |-> Ns, Nb |-> Nb]
        r == CWMH_sample_adapt(MCMC, self, Ns, Nb, fault)
    IN IF r.exc # NoExc
       THEN BMOut(r.exc, None, self, r.calls, r.draws, "CWMH", MCMC, run)
       ELSE BMOut(NoExc, Samples(r.ret, None), self, r.calls, r.draws, "CWMH", MCMC, run)

\* A variant of _samplepCN with the burn-in its comment proposes,
\* Nb = int(0.25*Ns).
samplepCN_burnin(self, Ns, fault) ==
    LET n == self.prior.dim
        target == <<"likelihood.logpdf(data, x)">>
        MCMC == pCN(self.prior, target, ScalePCN, zeros(n))
        Nb == (25 * Ns) \div 100
        run == [method |-> "sample", Ns |-> Ns, Nb |-> Nb]
        r == pCN_sample(MCMC, self, Ns, Nb, fault)
    IN IF r.exc # NoExc
       THEN BMOut(r.exc, None, self, r.calls, r.draws, "pCN", MCMC, run)
       ELSE BMOut(NoExc, Samples(r.ret, None), self, r.calls, r.draws, "pCN", MCMC, run)

\* BayesianModel._samplepCN(Ns)
samplepCN(self, Ns, fault) ==
    LET n == self.prior.dim
        target == <<"likelihood.logpdf(data, x)">>
        scale == ScalePCN
        x0 == zeros(n)
        MCMC == pCN(self.prior, target, scale, x0)
        run == [method |-> "sample", Ns |-> Ns, Nb |-> 0]
        r == pCN_sample(MCMC, self, Ns, 0, fault)
    IN IF r.exc # NoExc
       THEN BMOut(r.exc, None, self, r.calls, r.draws, "pCN", MCMC, run)
       ELSE BMOut(NoExc, Samples(r.ret, None), self, r.calls, r.draws, "pCN", MCMC, run)

\* A variant of the dispatch whose last branch falls back to CWMH instead of
\* raising.
sample_posterior_fallback(self, Ns, fault) ==
    IF check(self, "Gaussian", "Gaussian", "LinearModel")
         /\ ~check(self, "Gaussian", "GMRF", "None")
    THEN sampleMapCholesky(self, Ns, fault)
    ELSE IF check(self, "Gaussian", "Cauchy_diff", "None")
              \/ check(self, "Gaussian", "Laplace_diff", "None")
    THEN sampleCWMH(self, Ns, fault)
    ELSE IF check(self, "Gaussian", "Gaussian", "None")
    THEN samplepCN(self, Ns, fault)
    ELSE sampleCWMH(self, Ns, fault)

\* BayesianModel.sample_posterior(Ns)
sample_posterior(self, Ns, fault) ==
    IF check(self, "Gaussian", "Gaussian", "LinearModel")
         /\ ~check(self, "Gaussian", "GMRF", "None")
    THEN sampleMapCholesky(self, Ns, fault)
    ELSE IF check(self, "Gaussian", "Cauchy_diff", "None")
              \/ check(self, "Gaussian", "Laplace_diff", "None")
    THEN sampleCWMH(self, Ns, fault)
    ELSE IF check(self, "Gaussian", "Gaussian", "None")
    THEN samplepCN(self, Ns, fault)
    ELSE BMOut(NotImplemented(self), None, self, <<>>, 0, "none", None, NoRun)

\* BayesianModel.UQ(): 5000 samples, then the confidence interval is plotted
\* (the default geometry of Samples is a Continuous1D, which plot_ci accepts)
UQ(self, fault) ==
    LET samples == sample_posterior(self, UQNs, fault)
    IN IF samples.exc # NoExc THEN samples
       ELSE [samples EXCEPT !.ret = None]

(***************************************************************************)
(* The state machine.  A client constructs distributions and calls their   *)
(* methods (NextDist), or composes a BayesianModel and calls its methods   *)
(* (Next).  Python runs one call at a time, so a call is one step.         *)
(***************************************************************************)
MaxScale == 2     \* scale parameters are 1 .. MaxScale
MaxProblemDim == 2  \* the inverse problems have dimension 2 .. MaxProblemDim

\* a boundary condition string that no constructor knows
BadBC == "dirichlet"

Locations == UNION {[0 .. d - 1 -> {0, 1}] : d \in 1 .. MaxDim}
\* the vectors handed to logpdf/pdf: zero or one in each coordinate
Points(d) == [0 .. d - 1 -> {0, 1}]

DRes(op, args, exc, ret, built) ==
    [op |-> op, args |-> args, exc |-> exc, ret |-> ret, built |-> built]

BMRes(op, Ns, fault, o) ==
    [op |-> op, Ns |-> Ns, fault |-> fault, exc |-> o.exc, ret |-> o.ret,
     calls |-> o.calls, route |-> o.route, sampler |-> o.sampler, run |-> o.run]

Init ==
    /\ dist = None
    /\ dres = DRes("init", <<>>, NoExc, None, {})
    /\ bm = None
    /\ result = BMRes("init", 0, "none",
                      BMOut(NoExc, None, None, <<>>, 0, "none", None, NoRun))
    /\ draws = 0
    /\ mcmc = None
    /\ geo = None
    /\ gres = DRes("init", <<>>, NoExc, None, {})

\* ---- distribution.py ----
\* A behaviour follows one distribution object: the constructors act while no
\* object has been built, the methods act on the object built.
NewDiff(cls, location, scale, bndcond) ==
    LET o == IF cls = "Cauchy_diff" THEN Cauchy_diff(location, scale, bndcond)
             ELSE Laplace_diff(location, scale, bndcond)
    IN /\ dist = None
       /\ dist' = o.obj
       /\ dres' = DRes(cls, [location |-> location, scale |-> scale, bndcond |-> bndcond],
                       o.exc, None, IF o.exc = NoExc THEN {"D"} ELSE {})
       /\ draws' = 0
       /\ UNCHANGED <<bm, result>>

NewCauchy ==
    \E location \in {zeros(d) : d \in 1 .. MaxDim} \cup {ones(d) : d \in 1 .. MaxDim},
       scale \in 1 .. MaxScale, bndcond \in BndConds \cup {BadBC} :
        NewDiff("Cauchy_diff", location, scale, bndcond)

NewLaplace ==
    \E location \in {zeros(d) : d \in 1 .. MaxDim} \cup {ones(d) : d \in 1 .. MaxDim},
       scale \in 1 .. MaxScale, bndcond \in BndConds \cup {BadBC} :
        NewDiff("Laplace_diff", location, scale, bndcond)

\* two-dimensional fields are built on the 2 x 2 grid only
NewGMRF ==
    \E N \in 2 .. MaxN, dom \in {1, 2}, prec \in 1 .. MaxScale,
       BCs \in GMRF_BCs \cup {BadBC} :
        LET o == GMRF(zeros(IF dom = 1 THEN N ELSE N * N), prec, N, dom, BCs)
        IN /\ dist = None
           /\ dom = 2 => N = 2
           /\ dist' = o.obj
           /\ dres' = DRes("GMRF", [prec |-> prec, N |-> N, dom |-> dom, BCs |-> BCs],
                           o.exc, None, o.built)
           /\ draws' = 0
           /\ UNCHANGED <<bm, result>>

\* one-dimensional fields around the threshold of the log-determinant
NewLargeGMRF ==
    \E N \in EigThreshold - 1 .. EigThreshold + 1, BCs \in GMRF_BCs :
        LET o == GMRF_large(zeros(N), 1, N, BCs)
        IN /\ dist = None
           /\ dres.op = "init"
           /\ dist' = o.obj
           /\ dres' = DRes("GMRF", [prec |-> 1, N |-> N, dom |-> 1, BCs |-> BCs],
                           o.exc, None, o.built)
           /\ draws' = 0
           /\ UNCHANGED <<bm, result>>

\* correlation matrices: the identity, a correlated positive definite one and
\* one that is not positive definite (entries 2 1 / 1 2 and 1 2 / 2 1)
CorrMats(n) ==
    {eye(n)} \cup
    (IF n = 2
     THEN {[m |-> 2, n |-> 2, a |-> [ij \in (0 .. 1) \X (0 .. 1) |->
                                       IF ij[1] = ij[2] THEN 2 ELSE 1]],
           [m |-> 2, n |-> 2, a |-> [ij \in (0 .. 1) \X (0 .. 1) |->
                                       IF ij[1] = ij[2] THEN 1 ELSE 2]]}
     ELSE {})

NewGaussian ==
    \E n \in 1 .. 2 :
      \E mean \in {ndarray(<<n>>, zeros(n)), Callable},
         std \in {StdScalar(k) : k \in 1 .. MaxScale}
                   \cup {StdArray([j \in 0 .. n - 1 |-> j + 1])},
         corrmat \in CorrMats(n) :
        LET o == Gaussian(mean, std, corrmat)
        IN /\ dist = None
           /\ dist' = o.obj
           /\ dres' = DRes("Gaussian", [mean |-> mean, std |-> std, corrmat |-> corrmat],
                           o.exc, None, {})
           /\ draws' = 0
           /\ UNCHANGED <<bm, result>>

CallLogpdf ==
    /\ dist.cls \in {"Cauchy_diff", "Laplace_diff"}
    /\ \E x \in Points(dist.dim) :
         /\ dres' = DRes("logpdf", [x |-> x], NoExc,
                         IF dist.cls = "Cauchy_diff" THEN Cauchy_logpdf(dist, x)
                         ELSE Laplace_logpdf(dist, x), {})
         /\ draws' = 0
         /\ UNCHANGED <<dist, bm, result>>

CallPdf ==
    /\ dist.cls \in {"Cauchy_diff", "Laplace_diff"}
    /\ \E x \in Points(dist.dim) :
         /\ dres' = DRes("pdf", [x |-> x], NoExc,
                         IF dist.cls = "Cauchy_diff" THEN Cauchy_pdf(dist, x)
                         ELSE Laplace_pdf(dist, x), {})
         /\ draws' = 0
         /\ UNCHANGED <<dist, bm, result>>

\* logpdf(x) and pdf(x) of a GMRF whose matrices are written out, at the mean
\* (zero) and at the mean plus ones
CallGMRFLogpdf ==
    /\ dist.cls = "GMRF"
    /\ dist.N <= MaxN
    /\ \E x \in {zeros(dist.dim), ones(dist.dim)}, op \in {"logpdf", "pdf"} :
         LET o == IF op = "logpdf" THEN GMRF_logpdf(dist, x) ELSE GMRF_pdf(dist, x)
         IN /\ dres' = DRes(op, [x |-> x], o.exc, o.ret, {})
            /\ draws' = 0
            /\ UNCHANGED <<dist, bm, result>>

\* logpdf(x1, *x2) and pdf(x1, *x2) of a Gaussian, with and without the
\* extra argument
CallGaussianLogpdf ==
    /\ dist.cls = "Gaussian"
    /\ \E x1 \in Points(dist.dim), op \in {"logpdf", "pdf"},
          x2 \in {<<>>} \cup {<<x>> : x \in Points(dist.dim)} :
         LET o == IF op = "logpdf" THEN Gaussian_logpdf(dist, x1, x2)
                  ELSE Gaussian_pdf(dist, x1, x2)
         IN /\ dist' = o.self
            /\ dres' = DRes(op, [x |-> x1, args |-> x2], o.exc, o.ret, {})
            /\ draws' = 0
            /\ UNCHANGED <<bm, result>>

NewNormal ==
    \E n \in 1 .. 2, std \in 1 .. MaxScale :
        /\ dist = None
        /\ dist' = Normal(zeros(n), std)
        /\ dres' = DRes("Normal", [mean |-> zeros(n), std |-> std], NoExc, None, {})
        /\ draws' = 0
        /\ UNCHANGED <<bm, result>>

NewGamma ==
    \E shape \in 1 .. MaxScale, rate \in 1 .. MaxScale :
        /\ dist = None
        /\ dist' = Gamma(shape, rate)
        /\ dres' = DRes("Gamma", [shape |-> shape, rate |-> rate], NoExc, None, {})
        /\ draws' = 0
        /\ UNCHANGED <<bm, result>>

\* the keywords under which a caller hands over a seed or a generator
Handles == {"rng", "seed", "random_state"}

\* sample(Ns, kw=handle) on any distribution that has a sample method
CallSampleKeyword ==
    /\ dist.cls \in {"Normal", "Gamma", "Gaussian", "GMRF"}
    /\ \E Ns \in 1 .. MaxNs, kw \in Handles :
         LET o == sample_kw(dist, Ns, kw)
         IN /\ dres' = DRes("sample", [method |-> kw, Ns |-> Ns], o.exc, o.ret, {})
            /\ draws' = o.draws
            /\ UNCHANGED <<dist, bm, result>>

CallSample ==
    /\ dist.cls \in {"Normal", "Gamma", "Gaussian", "GMRF"}
    /\ \E Ns \in 1 .. MaxNs :
         LET o == CASE dist.cls = "GMRF" -> GMRF_sample(dist, Ns)
                    [] dist.cls = "Gaussian" -> Gaussian_sample(dist, Ns)
                    [] dist.cls = "Normal" -> Normal_sample(dist, Ns)
                    [] dist.cls = "Gamma" -> Gamma_sample(dist, Ns)
         IN /\ dist' = IF dist.cls = "Gaussian" THEN o.self ELSE dist
            /\ dres' = DRes("sample", [Ns |-> Ns], o.exc, o.ret, {})
            /\ draws' = o.draws
            /\ UNCHANGED <<bm, result>>

NextDist ==
    \/ NewCauchy /\ UNCHANGED <<mcmc, geo, gres>>
    \/ NewLaplace /\ UNCHANGED <<mcmc, geo, gres>>
    \/ NewGMRF /\ UNCHANGED <<mcmc, geo, gres>>
    \/ NewLargeGMRF /\ UNCHANGED <<mcmc, geo, gres>>
    \/ NewGaussian /\ UNCHANGED <<mcmc, geo, gres>>
    \/ NewNormal /\ UNCHANGED <<mcmc, geo, gres>>
    \/ NewGamma /\ UNCHANGED <<mcmc, geo, gres>>
    \/ CallLogpdf /\ UNCHANGED <<mcmc, geo, gres>>
    \/ CallPdf /\ UNCHANGED <<mcmc, geo, gres>>
    \/ CallGMRFLogpdf /\ UNCHANGED <<mcmc, geo, gres>>
    \/ CallGaussianLogpdf /\ UNCHANGED <<mcmc, geo, gres>>
    \/ CallSample /\ UNCHANGED <<mcmc, geo, gres>>
    \/ CallSampleKeyword /\ UNCHANGED <<mcmc, geo, gres>>

SpecDist == Init /\ [][NextDist]_vars

\* ---- problem.py ----
ProblemDims == 2 .. MaxProblemDim

LikelihoodsOf(n) ==
    {Gaussian(Callable, StdScalar(1), eye(n)).obj,
     Gaussian(ndarray(<<n>>, zeros(n)), StdScalar(1), eye(n)).obj,
     GMRF(zeros(n), 1, n, 1, "zero").obj,
     Normal(zeros(n), 1)}

PriorsOf(n) ==
    {Gaussian(ndarray(<<n>>, zeros(n)), StdScalar(1), eye(n)).obj,
     GMRF(zeros(n), 1, n, 1, "zero").obj,
     GMRF(zeros(n), 1, n, 1, "none").obj,
     Cauchy_diff(zeros(n), 1, "neumann").obj,
     Laplace_diff(zeros(n), 1, "zero").obj,
     Normal(zeros(n), 1)}

ModelsOf(n) == {None, LinearModel(n), Model(n)}

Construct ==
    \E n \in ProblemDims :
      \E likelihood \in LikelihoodsOf(n), prior \in PriorsOf(n), model \in ModelsOf(n) :
        /\ bm' = BayesianModel(likelihood, prior, model, ndarray(<<n>>, "data"))
        /\ result' = BMRes("__init__", 0, "none",
                           BMOut(NoExc, None, None, <<>>, 0, "none", None, NoRun))
        /\ draws' = 0
        /\ UNCHANGED <<dist, dres>>

CallMAP ==
    /\ bm # None
    /\ \E fault \in {"none", "get_matrix", "solve"} :
         LET o == MAP(bm, fault)
         IN /\ bm' = o.self
            /\ result' = BMRes("MAP", 0, fault, o)
            /\ draws' = o.draws

CallSamplePosterior ==
    /\ bm # None
    /\ \E Ns \in 0 .. MaxNs, fault \in Faults :
         LET o == sample_posterior(bm, Ns, fault)
         IN /\ bm' = o.self
            /\ result' = BMRes("sample_posterior", Ns, fault, o)
            /\ draws' = o.draws

CallUQ ==
    /\ bm # None
    /\ \E fault \in Faults :
         LET o == UQ(bm, fault)
         IN /\ bm' = o.self
            /\ result' = BMRes("UQ", UQNs, fault, o)
            /\ draws' = o.draws

Next ==
    \/ Construct /\ UNCHANGED <<mcmc, geo, gres>>
    \/ CallMAP /\ UNCHANGED <<dist, dres, mcmc, geo, gres>>
    \/ CallSamplePosterior /\ UNCHANGED <<dist, dres, mcmc, geo, gres>>
    \/ CallUQ /\ UNCHANGED <<dist, dres, mcmc, geo, gres>>

Spec == Init /\ [][Next]_vars

(***************************************************************************)
(* The samplers of cuqi.sampler, run one step at a time: component-wise    *)
(* Metropolis (CWMH.sample_adapt) and preconditioned Crank-Nicolson        *)
(* (pCN.sample).  A run is a record in mcmc; k counts finished iterations. *)
(***************************************************************************)
MaxIter == 3          \* most iterations (Ns) and longest burn-in (Nb) of a run
SamplerVals == {0, 1} \* the values a coordinate of the CWMH chain moves between
SamplerDims == 2 .. MaxProblemDim

\* the target of the CWMH runs: a standard normal log-density, up to a factor
SamplerTarget(x) == 0 - VSum([j \in DOMAIN x |-> x[j] * x[j]], len(x))

\* CWMH(target, proposal, scale, x0).sample_adapt(Ns, Nb) before its first
\* iteration.  scale[j] is the number of enlargements less the number of
\* reductions of the initial scale of coordinate j.
CWMH_start(n, Ns, Nb) ==
    [cls |-> "CWMH", x |-> zeros(n), n |-> 0, Ns |-> Ns, k |-> 0, Nb |-> Nb,
     scale |-> zeros(n),
     phase |-> IF Ns = 0 THEN "terminal" ELSE "proposing-coordinate",
     i |-> 0, acc |-> zeros(n), window |-> zeros(n),
     last |-> [x |-> zeros(n), i |-> 0 - 1, accepted |-> FALSE]]

\* One coordinate of a sweep: propose the value v for coordinate i alone,
\* evaluate the target at the vector with that coordinate replaced, accept
\* with probability min(1, exp(target_new - target_current)) (u: the uniform
\* draw fell below the ratio), else keep the previous value.
CWMH_coordinate(st, v, u) ==
    LET i == st.i
        y == [st.x EXCEPT ![i] = v]
        a == SamplerTarget(y) >= SamplerTarget(st.x) \/ u
    IN [st EXCEPT !.x = IF a THEN y ELSE @,
                  !.i = i + 1,
                  !.acc[i] = IF a THEN @ + 1 ELSE @,
                  !.window[i] = IF a THEN 1 ELSE 0,
                  !.phase = IF i + 1 = len(st.x) THEN "adapting"
                            ELSE "proposing-coordinate",
                  !.last = [x |-> y, i |-> i, accepted |-> a]]

\* A variant of the adaptation that goes on after the burn-in.
CWMH_adapt_always(scale, window, k, Nb) ==
    [j \in DOMAIN scale |-> IF window[j] = 1 THEN scale[j] + 1 ELSE scale[j] - 1]

\* The adaptation after the sweep that follows k finished ones: during the
\* burn-in (the first Nb iterations) the scale of a coordinate is enlarged
\* when its acceptance rate over the window lies above the band and
\* reduced when it lies below; afterwards the scale is left alone.
CWMH_adapt(scale, window, k, Nb) ==
    IF k < Nb
    THEN [j \in DOMAIN scale |-> IF window[j] = 1 THEN scale[j] + 1 ELSE scale[j] - 1]
    ELSE scale

\* The end of a sweep: the state joins the chain (n counts its columns), the
\* scale is adapted, and the run ends after Ns iterations.
CWMH_endsweep(st) ==
    [st EXCEPT !.n = @ + 1,
               !.k = @ + 1,
               !.scale = CWMH_adapt(@, st.window, st.k, st.Nb),
               !.phase = IF st.k + 1 = st.Ns THEN "terminal"
                         ELSE "proposing-coordinate",
               !.i = 0,
               !.window = [j \in DOMAIN @ |-> 0]]

\* pCN(prior, target, scale, x0).sample(Ns, Nb) before its first iteration;
\* the chain state is kept as the expression that built it
pCN_start(Ns, Nb, beta) ==
    [cls |-> "pCN", x |-> [op |-> "x0"], Ns |-> Ns, k |-> 0, Nb |-> Nb,
     scale |-> beta, draws |-> 0,
     phase |-> IF Ns = 0 THEN "terminal" ELSE "proposing",
     acc |-> <<>>, chain |-> <<>>, target_eval |-> <<>>,
     xi |-> [op |-> "none", k |-> 0]]

\* x_proposed = sqrt(1 - beta^2)*x_current + beta*prior_sample
pCN_proposal(x, beta, xi) ==
    [op |-> "sqrt(1-beta^2)*x + beta*xi", x |-> x, scale |-> beta, xi |-> xi]

\* A variant of the iteration that draws from the prior once and proposes
\* with that sample ever after.
pCN_iteration_stale(st, a) ==
    LET xi == [op |-> "prior.sample", k |-> 1]
        xn == IF a THEN pCN_proposal(st.x, st.scale, xi) ELSE st.x
    IN [st EXCEPT !.x = xn,
                  !.k = @ + 1,
                  !.draws = 1,
                  !.phase = IF st.k + 1 = st.Ns THEN "terminal" ELSE "proposing",
                  !.acc = Append(@, a),
                  !.chain = Append(@, xn),
                  !.target_eval = Append(@, [op |-> "target", x |-> xn]),
                  !.xi = xi]

\* One iteration: draw a fresh sample from the prior, build the proposal,
\* evaluate the target there, accept (a) or keep the previous state, and
\* record the state, its target value and the decision.
pCN_iteration(st, a) ==
    LET xi == [op |-> "prior.sample", k |-> st.draws + 1]
        xn == IF a THEN pCN_proposal(st.x, st.scale, xi) ELSE st.x
    IN [st EXCEPT !.x = xn,
                  !.k = @ + 1,
                  !.draws = @ + 1,
                  !.phase = IF st.k + 1 = st.Ns THEN "terminal" ELSE "proposing",
                  !.acc = Append(@, a),
                  !.chain = Append(@, xn),
                  !.target_eval = Append(@, [op |-> "target", x |-> xn]),
                  !.xi = xi]

StartCWMH ==
    /\ mcmc = None
    /\ \E n \in SamplerDims, Ns \in 0 .. MaxIter, Nb \in 0 .. MaxIter :
         mcmc' = CWMH_start(n, Ns, Nb)
    /\ UNCHANGED <<dist, dres, bm, result, draws, geo, gres>>

StepCWMHCoordinate ==
    /\ mcmc.cls = "CWMH"
    /\ mcmc.phase = "proposing-coordinate"
    /\ \E v \in SamplerVals, u \in BOOLEAN :
         mcmc' = CWMH_coordinate(mcmc, v, u)
    /\ UNCHANGED <<dist, dres, bm, result, draws, geo, gres>>

StepCWMHEndSweep ==
    /\ mcmc.cls = "CWMH"
    /\ mcmc.phase = "adapting"
    /\ mcmc' = CWMH_endsweep(mcmc)
    /\ UNCHANGED <<dist, dres, bm, result, draws, geo, gres>>

StartpCN ==
    /\ mcmc = None
    /\ \E Ns \in 0 .. MaxIter, Nb \in 0 .. MaxIter :
         mcmc' = pCN_start(Ns, Nb, ScalePCN)
    /\ UNCHANGED <<dist, dres, bm, result, draws, geo, gres>>

SteppCN ==
    /\ mcmc.cls = "pCN"
    /\ mcmc.phase = "proposing"
    /\ \E a \in BOOLEAN :
         mcmc' = pCN_iteration(mcmc, a)
    /\ UNCHANGED <<dist, dres, bm, result, draws, geo, gres>>

NextSampler ==
    \/ StartCWMH
    \/ StepCWMHCoordinate
    \/ StepCWMHEndSweep
    \/ StartpCN
    \/ SteppCN

SpecSampler == Init /\ [][NextSampler]_vars

(***************************************************************************)
(* Geometries (geometry/_geometry.py) and the geometry of Samples          *)
(* (samples.py).  Python values whose type matters are tagged with it.     *)
(***************************************************************************)
MaxGrid == 3     \* largest number of nodes asked for by an int

PyInt(n) == [kind |-> "int", v |-> n]
PyFloat(n) == [kind |-> "float", v |-> n]
PyTuple(s) == [kind |-> "tuple", v |-> s]
PyList(s) == [kind |-> "list", v |-> s]
PyNested(s) == [kind |-> "list of lists", v |-> s]

\* a one-dimensional array of floats
FloatArray(n, v) == [kind |-> "ndarray", shape |-> <<n>>, v |-> v, dtype |-> "float"]

\* A variant that numbers the nodes of a default grid from 1.
create_dimension_from1(dim_grid) ==
    IF dim_grid = None THEN [exc |-> NoExc, ret |-> None]
    ELSE LET g == IF dim_grid.kind = "tuple" /\ Len(dim_grid.v) = 1
                  THEN dim_grid.v[1] ELSE dim_grid
         IN IF g.kind = "int"
            THEN [exc |-> NoExc, ret |-> FloatArray(g.v, [j \in 0 .. g.v - 1 |-> j + 1])]
            ELSE IF g.kind = "list"
            THEN [exc |-> NoExc,
                  ret |-> FloatArray(Len(g.v), [j \in 0 .. Len(g.v) - 1 |-> g.v[j + 1]])]
            ELSE [exc |-> Raise("ValueError", {"dim_grid"}), ret |-> None]

\* Continuous._create_dimension(dim_grid)
create_dimension(dim_grid) ==
    IF dim_grid = None THEN [exc |-> NoExc, ret |-> None]
    ELSE LET g == IF dim_grid.kind = "tuple" /\ Len(dim_grid.v) = 1
                  THEN dim_grid.v[1] ELSE dim_grid
         IN IF g.kind = "int"
            THEN [exc |-> NoExc, ret |-> FloatArray(g.v, [j \in 0 .. g.v - 1 |-> j])]
            ELSE IF g.kind = "list"
            THEN [exc |-> NoExc,
                  ret |-> FloatArray(Len(g.v), [j \in 0 .. Len(g.v) - 1 |-> g.v[j + 1]])]
            ELSE [exc |-> Raise("ValueError", {"dim_grid"}), ret |-> None]

\* the grid setter of Continuous1D
Continuous1D_setgrid(self, value) ==
    LET o == create_dimension(value)
    IN IF o.exc # NoExc THEN [exc |-> o.exc, self |-> self]
       ELSE [exc |-> NoExc, self |-> [self EXCEPT !.grid = o.ret]]

\* the grid setter of Continuous2D; len(value) of an int or a float is a
\* TypeError
Continuous2D_setgrid(self, value) ==
    IF value = None THEN [exc |-> NoExc, self |-> [self EXCEPT !.grid = None]]
    ELSE IF value.kind \in {"int", "float"}
    THEN [exc |-> Raise("TypeError", {"len"}), self |-> self]
    ELSE IF Len(value.v) # 2
    THEN [exc |-> Raise("NotImplementedError", {"grid must be a 2D tuple"}), self |-> self]
    ELSE LET g0 == create_dimension(value.v[1])
             g1 == create_dimension(value.v[2])
         IN IF g0.exc # NoExc THEN [exc |-> g0.exc, self |-> self]
            ELSE IF g1.exc # NoExc THEN [exc |-> g1.exc, self |-> self]
            ELSE [exc |-> NoExc,
                  self |-> [self EXCEPT !.grid = PyTuple(<<g0.ret, g1.ret>>)]]

\* Continuous.__init__(grid, axis_labels) as Continuous1D, Continuous2D and
\* _DefaultGeometry run it: axis_labels, then the grid through the setter
NewGeometry(cls, grid) ==
    LET self == [cls |-> cls, axis_labels |-> None, grid |-> None]
        o == IF cls = "Continuous2D" THEN Continuous2D_setgrid(self, grid)
             ELSE Continuous1D_setgrid(self, grid)
    IN IF o.exc # NoExc THEN [exc |-> o.exc, obj |-> None]
       ELSE [exc |-> NoExc, obj |-> o.self]

Continuous1D(grid) == NewGeometry("Continuous1D", grid)
Continuous2D(grid) == NewGeometry("Continuous2D", grid)
DefaultGeometry(grid) == NewGeometry("_DefaultGeometry", grid)

\* the properties par_shape, fun_shape, par_dim and fun_dim
par_shape(self) ==
    IF self.cls = "StepExpansion" THEN PyTuple(<<self.n_steps>>)
    ELSE IF self.cls = "Discrete" THEN PyTuple(<<Len(self.variables.v)>>)
    ELSE IF self.grid = None THEN None
    ELSE IF self.cls = "Continuous2D"
    THEN PyTuple(<<self.grid.v[1].shape[1] * self.grid.v[2].shape[1]>>)
    ELSE PyTuple(<<self.grid.shape[1]>>)

fun_shape(self) ==
    IF self.cls = "Discrete" THEN PyTuple(<<Len(self.variables.v)>>)
    ELSE IF self.grid = None THEN None
    ELSE IF self.cls = "Continuous2D"
    THEN PyTuple(<<self.grid.v[1].shape[1], self.grid.v[2].shape[1]>>)
    ELSE PyTuple(self.grid.shape)

\* reduce(operator.mul, shape)
RECURSIVE reduce_mul(_)
reduce_mul(shape) ==
    IF Len(shape) = 1 THEN shape[1] ELSE shape[1] * reduce_mul(Tail(shape))

par_dim(self) ==
    IF par_shape(self) = None THEN None ELSE PyInt(reduce_mul(par_shape(self).v))

fun_dim(self) ==
    IF fun_shape(self) = None THEN None ELSE PyInt(reduce_mul(fun_shape(self).v))

\* np.prod(shape): the float 1.0 for the empty shape, else an integer
np_prod(shape) ==
    IF Len(shape) = 0 THEN PyFloat(1) ELSE PyInt(reduce_mul(shape))

\* A variant of the geometry property that builds the default geometry at
\* every read and does not keep it.
Samples_geometry_nocache(self) ==
    IF self.geometry = None
    THEN LET g == DefaultGeometry(np_prod(SubSeq(self.samples.shape, 1,
                                                 Len(self.samples.shape) - 1)))
         IN IF g.exc # NoExc
            THEN [exc |-> g.exc, ret |-> None, built |-> {}, self |-> self]
            ELSE [exc |-> NoExc, ret |-> g.obj, built |-> {"_DefaultGeometry"},
                  self |-> self]
    ELSE [exc |-> NoExc, ret |-> self.geometry, built |-> {}, self |-> self]

\* the property Samples.geometry
Samples_geometry(self) ==
    IF self.geometry = None
    THEN LET g == DefaultGeometry(np_prod(SubSeq(self.samples.shape, 1,
                                                 Len(self.samples.shape) - 1)))
         IN IF g.exc # NoExc
            THEN [exc |-> g.exc, ret |-> None, built |-> {}, self |-> self]
            ELSE [exc |-> NoExc, ret |-> g.obj, built |-> {"_DefaultGeometry"},
                  self |-> [self EXCEPT !.geometry = g.obj]]
    ELSE [exc |-> NoExc, ret |-> self.geometry, built |-> {}, self |-> self]

\* the setter of Samples.geometry
Samples_setgeometry(self, inGeometry) == [self EXCEPT !.geometry = inGeometry]

\* ---- variable names, Discrete, and equality of geometries ----
PyBool(b) == [kind |-> "bool", v |-> b]
PyRange(n) == [kind |-> "range", v |-> n]
PyListNonStr(s) == [kind |-> "list with a non-str", v |-> s]

\* the object with _variables assigned, and with _ids assigned after it
SetVariablesAttr(self, names) ==
    IF "variables" \in DOMAIN self THEN [self EXCEPT !.variables = names]
    ELSE IF self.cls = "Discrete" THEN [cls |-> self.cls, variables |-> names]
    ELSE [cls |-> self.cls, axis_labels |-> self.axis_labels, grid |-> self.grid,
          variables |-> names]

SetIdsAttr(self, r) ==
    IF "ids" \in DOMAIN self THEN [self EXCEPT !.ids = r]
    ELSE IF self.cls = "Discrete"
    THEN [cls |-> self.cls, variables |-> self.variables, ids |-> r]
    ELSE [cls |-> self.cls, axis_labels |-> self.axis_labels, grid |-> self.grid,
          variables |-> self.variables, ids |-> r]

\* A variant of the name generator that indexes a single variable too.
generated_names_indexed(n) == [j \in 1 .. n |-> "v" \o ToString(j - 1)]

\* [name+str(var) for var in range(value)] if value != 1 else [name], with
\* the default name "v"
generated_names(n) ==
    IF n # 1 THEN [j \in 1 .. n |-> "v" \o ToString(j - 1)] ELSE <<"v">>

\* the setter of Geometry.variables: the names are stored, then
\* _ids = range(self.par_dim), a TypeError when par_dim is None
variables_set(self, value) ==
    IF value = None \/ value.kind \notin {"int", "list"}
    THEN [exc |-> Raise("ValueError", {"variables should be int, or list of strings"}),
          self |-> self]
    ELSE LET names == IF value.kind = "int" THEN PyList(generated_names(value.v))
                      ELSE value
             s1 == SetVariablesAttr(self, names)
             dim == par_dim(s1)
         IN IF dim = None
            THEN [exc |-> Raise("TypeError", {"range"}), self |-> s1]
            ELSE [exc |-> NoExc, self |-> SetIdsAttr(s1, PyRange(dim.v))]

\* the getter of Geometry.variables: names are generated from par_dim when
\* none are set
variables_get(self) ==
    IF "variables" \in DOMAIN self
    THEN [exc |-> NoExc, ret |-> self.variables, self |-> self]
    ELSE LET o == variables_set(self, par_dim(self))
         IN IF o.exc # NoExc THEN [exc |-> o.exc, ret |-> None, self |-> o.self]
            ELSE [exc |-> NoExc, ret |-> o.self.variables, self |-> o.self]

\* Discrete.__init__(variables)
Discrete(variables) ==
    LET o == variables_set([cls |-> "Discrete"], variables)
    IN IF o.exc # NoExc THEN [exc |-> o.exc, obj |-> None]
       ELSE [exc |-> NoExc, obj |-> o.self]

\* the classes a geometry class is a subclass of, itself included
GeomBases(cls) ==
    CASE cls = "_DefaultGeometry" -> {"_DefaultGeometry", "Continuous1D", "Continuous"}
      [] cls = "Continuous1D" -> {"Continuous1D", "Continuous"}
      [] cls = "Continuous2D" -> {"Continuous2D", "Continuous"}
      [] cls = "Discrete" -> {"Discrete"}

\* vars(self) in the order of assignment
GeomVars(self) ==
    (IF self.cls = "Discrete" THEN <<>> ELSE <<"axis_labels", "grid">>)
        \o (IF "variables" \in DOMAIN self THEN <<"variables">> ELSE <<>>)
        \o (IF "ids" \in DOMAIN self THEN <<"ids">> ELSE <<>>)

\* np.array_equiv of two one-dimensional arrays: the shapes must broadcast
\* (equal lengths, or one of them 1) and the broadcast arrays agree in every
\* element; no element, no disagreement
equiv_1d(n, u, m, w) ==
    /\ n = m \/ n = 1 \/ m = 1
    /\ LET size == IF n = 1 THEN m ELSE n
       IN \A j \in 0 .. size - 1 :
            u[IF n = 1 THEN 0 ELSE j] = w[IF m = 1 THEN 0 ELSE j]

\* the number of elements of a value as an array: None is an array of one
\* object; two grids of equal length stack to a 2 x n array; two grids of
\* different lengths make no array (size -1)
array_size(a) ==
    IF a = None THEN 1
    ELSE IF a.kind = "ndarray" THEN a.shape[1]
    ELSE IF a.kind = "range" THEN a.v
    ELSE IF a.kind = "tuple"
    THEN IF a.v[1].shape[1] = a.v[2].shape[1] THEN 2 * a.v[1].shape[1] ELSE 0 - 1
    ELSE 1

array_values(a) ==
    IF a.kind = "range" THEN [j \in 0 .. a.v - 1 |-> j] ELSE a.v

\* np.array_equiv(a1, a2) for the values an attribute of a geometry takes.
\* A failure to build or broadcast the arrays is caught inside and gives
\* False.  None equals no number, so None against numbers is True only
\* when there is no number to compare.
array_equiv(a1, a2) ==
    IF a1 = None /\ a2 = None THEN TRUE
    ELSE IF a1 = None THEN array_size(a2) = 0
    ELSE IF a2 = None THEN array_size(a1) = 0
    ELSE IF a1.kind \in {"ndarray", "range"} /\ a2.kind \in {"ndarray", "range"}
    THEN equiv_1d(array_size(a1), array_values(a1), array_size(a2), array_values(a2))
    ELSE FALSE

\* one element of two lists or tuples compared: names by ==, grids as arrays
element_equiv(key, x, y) ==
    IF key = "variables" THEN x = y ELSE array_equiv(x, y)

\* the loop `for i in range(max(len(value), len(obj_value)))` from index i on:
\* "True", "False", or "IndexError" when one of the two is too short
RECURSIVE elements_equal(_, _, _, _)
elements_equal(key, value, obj_value, i) ==
    IF i > Len(value) /\ i > Len(obj_value) THEN "True"
    ELSE IF i > Len(value) \/ i > Len(obj_value) THEN "IndexError"
    ELSE IF ~element_equiv(key, value[i], obj_value[i]) THEN "False"
    ELSE elements_equal(key, value, obj_value, i + 1)

IsListOrTuple(a) == a # None /\ a.kind \in {"list", "tuple"}

\* Geometry._all_values_equal(obj) from the k-th attribute of self on; obj
\* may get its variable names generated on the way
RECURSIVE all_values_equal(_, _, _)
all_values_equal(self, obj, k) ==
    IF k > Len(GeomVars(self)) THEN [exc |-> NoExc, ret |-> TRUE, obj |-> obj]
    ELSE LET key == GeomVars(self)[k]
             \* the attribute compared with obj as g left it
             compared(g) ==
                 IF g.exc # NoExc THEN [exc |-> g.exc, ret |-> FALSE, obj |-> g.self]
                 ELSE IF key \notin DOMAIN g.self
                 THEN [exc |-> Raise("KeyError", {key}), ret |-> FALSE, obj |-> g.self]
                 ELSE LET value == self[key]
                          obj_value == g.self[key]
                          r == IF IsListOrTuple(value) /\ IsListOrTuple(obj_value)
                               THEN elements_equal(key, value.v, obj_value.v, 1)
                               ELSE IF array_equiv(value, obj_value) THEN "True"
                               ELSE "False"
                      IN IF r = "IndexError"
                         THEN [exc |-> Raise("IndexError", {key}), ret |-> FALSE,
                               obj |-> g.self]
                         ELSE IF r = "False"
                         THEN [exc |-> NoExc, ret |-> FALSE, obj |-> g.self]
                         ELSE all_values_equal(self, g.self, k + 1)
         IN CHOOSE out \in {compared(g) :
                              g \in {IF key = "variables" THEN variables_get(obj)
                                     ELSE [exc |-> NoExc, ret |-> None, self |-> obj]}} :
                TRUE

\* Geometry.__eq__(obj), and _DefaultGeometry.__eq__(obj), which takes a
\* Continuous1D too
geometry_eq(self, obj) ==
    IF (IF self.cls = "_DefaultGeometry" THEN "Continuous1D" ELSE self.cls)
           \notin GeomBases(obj.cls)
    THEN [exc |-> NoExc, ret |-> FALSE, obj |-> obj]
    ELSE all_values_equal(self, obj, 1)

\* g1 == g2: Python asks the right operand first when its class is a proper
\* subclass of the left one's that defines __eq__ (_DefaultGeometry under
\* Continuous1D); first is the operand whose __eq__ ran
eq(g1, g2) ==
    IF g1.cls = "Continuous1D" /\ g2.cls = "_DefaultGeometry"
    THEN CHOOSE out \in {[exc |-> o.exc, ret |-> o.ret, obj |-> g2, self |-> o.obj] :
                            o \in {geometry_eq(g2, g1)}} : TRUE
    ELSE CHOOSE out \in {[exc |-> o.exc, ret |-> o.ret, obj |-> o.obj, self |-> g1] :
                            o \in {geometry_eq(g1, g2)}} : TRUE

\* ---- the grids handed to the geometries ----
Lists == {PyList(<<>>), PyList(<<5>>), PyList(<<1, 2, 3, 4>>)}

\* what one dimension of a grid can be given as, and what it cannot
DimGrids ==
    {PyInt(n) : n \in 0 .. MaxGrid} \cup {PyTuple(<<PyInt(n)>>) : n \in 0 .. MaxGrid}
        \cup Lists
BadDimGrids == {PyFloat(1), PyNested(<<<<1, 2>>, <<3, 4>>>>)}

Grids1D == {None} \cup DimGrids \cup BadDimGrids \cup {PyTuple(<<PyInt(2), PyInt(3)>>)}

Grids2D ==
    {None, PyInt(2), PyTuple(<<PyInt(1), PyInt(2), PyInt(3)>>)}
        \cup {PyTuple(<<g0, g1>>) : g0 \in DimGrids, g1 \in {PyInt(1), PyInt(MaxGrid)} \cup Lists}
        \cup {PyTuple(<<PyInt(2), g1>>) : g1 \in BadDimGrids}

GridsOf(cls) == IF cls = "Continuous2D" THEN Grids2D ELSE Grids1D

\* the shapes of the sample arrays
SampleShapes == {<<MaxNs>>, <<2, MaxNs>>, <<0, 1>>, <<MaxGrid, 1>>, <<2, MaxGrid, MaxNs>>}

NewContinuous ==
    \E cls \in {"Continuous1D", "Continuous2D"} :
      \E grid \in GridsOf(cls) :
        LET o == NewGeometry(cls, grid)
        IN /\ geo = None
           /\ gres.op = "init"
           /\ geo' = o.obj
           /\ gres' = DRes(cls, [grid |-> grid], o.exc, None, {})
           /\ UNCHANGED <<dist, dres, bm, result, draws, mcmc>>

\* geom.grid = value
SetGrid ==
    /\ geo.cls \in {"Continuous1D", "Continuous2D"}
    /\ \E value \in GridsOf(geo.cls) :
         LET o == IF geo.cls = "Continuous2D" THEN Continuous2D_setgrid(geo, value)
                  ELSE Continuous1D_setgrid(geo, value)
         IN /\ geo' = o.self
            /\ gres' = DRes("grid =", [grid |-> value], o.exc, None, {})
    /\ UNCHANGED <<dist, dres, bm, result, draws, mcmc>>

\* reading grid, par_shape, par_dim, fun_shape and fun_dim
ReadShapes ==
    /\ geo.cls \in {"Continuous1D", "Continuous2D"}
    /\ gres' = DRes("shapes", <<>>, NoExc,
                    [grid |-> geo.grid, par_shape |-> par_shape(geo),
                     par_dim |-> par_dim(geo), fun_shape |-> fun_shape(geo),
                     fun_dim |-> fun_dim(geo)], {})
    /\ UNCHANGED <<dist, dres, bm, result, draws, mcmc, geo>>

\* the geometries handed to Samples
SampleGeometries == {None, Continuous1D(PyInt(2)).obj, Continuous2D(None).obj}

NewSamples ==
    \E shape \in SampleShapes, geometry \in SampleGeometries :
        /\ geo = None
        /\ gres.op = "init"
        /\ geo' = Samples(ndarray(shape, "chain"), geometry)
        /\ gres' = DRes("Samples", [shape |-> shape, geometry |-> geometry],
                        NoExc, None, {})
        /\ UNCHANGED <<dist, dres, bm, result, draws, mcmc>>

\* samples.geometry
ReadSamplesGeometry ==
    /\ geo.cls = "Samples"
    /\ LET o == Samples_geometry(geo)
       IN /\ geo' = o.self
          /\ gres' = DRes("Samples.geometry", <<>>, o.exc, o.ret, o.built)
    /\ UNCHANGED <<dist, dres, bm, result, draws, mcmc>>

\* samples.geometry = inGeometry
SetSamplesGeometry ==
    /\ geo.cls = "Samples"
    /\ \E inGeometry \in SampleGeometries :
         /\ geo' = Samples_setgeometry(geo, inGeometry)
         /\ gres' = DRes("Samples.geometry =", [geometry |-> inGeometry],
                         NoExc, None, {})
    /\ UNCHANGED <<dist, dres, bm, result, draws, mcmc>>

\* what Discrete is given as variables, and what it rejects
DiscreteVariables ==
    {PyInt(n) : n \in 0 .. MaxGrid}
        \cup {PyList(<<"a", "b">>), PyList(<<"v0", "v1">>), PyList(<<"a", "b", "c">>)}
BadDiscreteVariables == {None, PyFloat(1), PyListNonStr(<<"a", 1>>)}

NewDiscrete ==
    \E variables \in DiscreteVariables \cup BadDiscreteVariables :
        LET o == Discrete(variables)
        IN /\ geo = None
           /\ gres.op = "init"
           /\ geo' = o.obj
           /\ gres' = DRes("Discrete", [variables |-> variables], o.exc, None, {})
           /\ UNCHANGED <<dist, dres, bm, result, draws, mcmc>>

\* the grids of the geometries that are compared
EqGrids(cls) ==
    IF cls = "Continuous2D"
    THEN {None, PyTuple(<<PyInt(1), PyInt(2)>>), PyTuple(<<PyInt(1), PyInt(MaxGrid)>>),
          PyTuple(<<PyInt(0), PyInt(0)>>)}
    ELSE {None, PyInt(0), PyInt(2), PyInt(MaxGrid), PyList(<<5>>), PyList(<<5, 5>>)}

\* Continuous1D(grid), Continuous2D(grid) and _DefaultGeometry(grid)
NewComparedGeometry ==
    \E cls \in {"Continuous1D", "Continuous2D", "_DefaultGeometry"} :
      \E grid \in EqGrids(cls) :
        LET o == NewGeometry(cls, grid)
        IN /\ geo = None
           /\ gres.op = "init"
           /\ geo' = o.obj
           /\ gres' = DRes(cls, [grid |-> grid], o.exc, None, {})
           /\ UNCHANGED <<dist, dres, bm, result, draws, mcmc>>

\* geom.grid = value, on a geometry that is compared
AssignGrid ==
    /\ geo.cls \in {"Continuous1D", "Continuous2D"}
    /\ \E value \in EqGrids(geo.cls) :
         LET o == IF geo.cls = "Continuous2D" THEN Continuous2D_setgrid(geo, value)
                  ELSE Continuous1D_setgrid(geo, value)
         IN /\ geo' = o.self
            /\ gres' = DRes("grid =", [grid |-> value], o.exc, None, {})
    /\ UNCHANGED <<dist, dres, bm, result, draws, mcmc>>

GeometryClasses == {"Continuous1D", "Continuous2D", "_DefaultGeometry", "Discrete"}

\* geom.variables
ReadVariables ==
    /\ geo.cls \in GeometryClasses
    /\ LET o == variables_get(geo)
       IN /\ geo' = o.self
          /\ gres' = DRes("variables", <<>>, o.exc, o.ret, {})
    /\ UNCHANGED <<dist, dres, bm, result, draws, mcmc>>

\* the lists of names assigned to a geometry: as many as it has parameters
AssignedNames == {PyList(<<"a">>), PyList(<<"a", "b">>), PyList(<<"a", "b", "c">>)}
AssignedNamesOf(g) ==
    IF par_dim(g) = None THEN {}
    ELSE {names \in AssignedNames : Len(names.v) = par_dim(g).v}

\* geom.variables = value
SetVariables ==
    /\ geo.cls \in GeometryClasses
    /\ \E value \in AssignedNamesOf(geo) \cup {PyListNonStr(<<"a", 1>>)} :
         LET o == variables_set(geo, value)
         IN /\ geo' = o.self
            /\ gres' = DRes("variables =", [variables |-> value], o.exc, None, {})
    /\ UNCHANGED <<dist, dres, bm, result, draws, mcmc>>

\* the geometries on the right of ==, some with their names generated or
\* assigned
EqOperands ==
    LET fresh == {Continuous1D(None).obj, Continuous1D(PyInt(0)).obj,
                  Continuous1D(PyInt(2)).obj, Continuous1D(PyInt(3)).obj,
                  Continuous1D(PyList(<<5>>)).obj,
                  Continuous1D(PyList(<<5, 5>>)).obj,
                  DefaultGeometry(PyInt(2)).obj,
                  Continuous2D(PyTuple(<<PyInt(1), PyInt(2)>>)).obj,
                  Discrete(PyInt(2)).obj, Discrete(PyInt(3)).obj}
        named == {Continuous1D(PyInt(0)).obj, Continuous1D(PyInt(2)).obj}
    IN fresh \cup {variables_get(g).self : g \in named}
             \cup {variables_set(Continuous1D(PyInt(2)).obj, PyList(<<"a", "b">>)).self}

\* geo == g2
CallEq ==
    /\ geo.cls \in GeometryClasses
    /\ \E g2 \in EqOperands :
         \E o \in {eq(geo, g2)} :
            /\ geo' = o.self
            /\ gres' = DRes("==", [obj |-> g2, self |-> geo], o.exc,
                            PyBool(o.ret), {})
    /\ UNCHANGED <<dist, dres, bm, result, draws, mcmc>>

\* len(range(Nb, n, Nt)) for Nb >= 0 and Nt >= 1
SliceLen(n, Nb, Nt) == IF Nb >= n THEN 0 ELSE (n - Nb + Nt - 1) \div Nt

\* Samples.burnthin(Nb, Nt): self.samples = self.samples[Nb::Nt,:], a slice
\* of the first axis; two indices into an array of one axis are an
\* IndexError
Samples_burnthin(self, Nb, Nt) ==
    LET shape == self.samples.shape
    IN IF Len(shape) < 2
       THEN [exc |-> Raise("IndexError", {"too many indices for array"}), self |-> self]
       ELSE [exc |-> NoExc,
             self |-> [self EXCEPT !.samples.shape =
                          <<SliceLen(shape[1], Nb, Nt)>> \o Tail(shape)]]

\* samples.burnthin(Nb, Nt)
BurnThin ==
    /\ geo.cls = "Samples"
    /\ \E Nb \in 0 .. 2, Nt \in 1 .. 2 :
         LET o == Samples_burnthin(geo, Nb, Nt)
         IN /\ geo' = o.self
            /\ gres' = DRes("burnthin", [Nb |-> Nb, Nt |-> Nt], o.exc, None, {})
    /\ UNCHANGED <<dist, dres, bm, result, draws, mcmc>>

\* ---- StepExpansion ----
\* str.lower() on the names of projections handed in
lower(s) == CASE s = "MAX" -> "max" [] s = "MiN" -> "min" [] OTHER -> s

\* np.where((grid > start) & (grid <= end)), with >= start for i = 0, where
\* start = x0 + i*L/n_steps and end = x0 + (i+1)*L/n_steps; both sides are
\* multiplied by n_steps > 0
interval_indices(grid, n_steps, i) ==
    LET n == grid.shape[1]
        L == grid.v[n - 1] - grid.v[0]
    IN {k \in 0 .. n - 1 :
          /\ IF i = 0 THEN (grid.v[k] - grid.v[0]) * n_steps >= i * L
             ELSE (grid.v[k] - grid.v[0]) * n_steps > i * L
          /\ (grid.v[k] - grid.v[0]) * n_steps <= (i + 1) * L}

\* StepExpansion._check_grid_setup: np.size(None) is 1, np.diff(None) is a
\* ValueError, and grid[1] of a grid of fewer than two nodes an IndexError
check_grid_setup(self) ==
    LET size == IF self.grid = None THEN 1 ELSE self.grid.shape[1]
    IN IF self.n_steps > size
       THEN Raise("ValueError", {"n_steps must be smaller than the number of grid points"})
       ELSE IF self.grid = None THEN Raise("ValueError", {"diff"})
       ELSE IF size < 2 THEN Raise("IndexError", {"grid[1]"})
       ELSE IF \E k \in 1 .. size - 1 :
                 self.grid.v[k] - self.grid.v[k - 1] # self.grid.v[1] - self.grid.v[0]
       THEN Raise("ValueError", {"The grid must be an equally spaced grid (regular)."})
       ELSE NoExc

\* StepExpansion.__init__(grid, n_steps, fun2par_projection)
StepExpansion(grid, n_steps, fun2par_projection) ==
    LET g == NewGeometry("StepExpansion", grid)
        s1 == [cls |-> "StepExpansion", axis_labels |-> g.obj.axis_labels,
               grid |-> g.obj.grid, n_steps |-> n_steps]
    IN IF g.exc # NoExc THEN [exc |-> g.exc, obj |-> None]
       ELSE IF check_grid_setup(s1) # NoExc
       THEN [exc |-> check_grid_setup(s1), obj |-> None]
       ELSE [exc |-> NoExc,
             obj |-> [cls |-> "StepExpansion", axis_labels |-> s1.axis_labels,
                      grid |-> s1.grid, n_steps |-> n_steps,
                      fun2par_projection |-> fun2par_projection,
                      indices |-> [i \in 1 .. n_steps |->
                                     interval_indices(s1.grid, n_steps, i - 1)]]]

\* StepExpansion.par2fun(p): zeros, then the nodes of the i-th interval set
\* to p[i]
par2fun(self, p) ==
    [k \in 0 .. self.grid.shape[1] - 1 |->
        IF \E i \in 1 .. self.n_steps : k \in self.indices[i]
        THEN p[CHOOSE i \in 1 .. self.n_steps :
                 /\ k \in self.indices[i]
                 /\ \A j \in i + 1 .. self.n_steps : k \notin self.indices[j]]
        ELSE 0]

RECURSIVE SumOver(_, _)
SumOver(f, S) ==
    IF S = {} THEN 0 ELSE LET k == CHOOSE x \in S : TRUE IN f[k] + SumOver(f, S \ {k})

\* one projected value as a fraction: np.mean is sum/count (nan, 0/0, over
\* no node), np.max and np.min the extreme value
projected(f, S, proj) ==
    IF proj = "mean" THEN [num |-> SumOver(f, S), den |-> Cardinality(S)]
    ELSE IF proj = "max"
    THEN [num |-> CHOOSE x \in {f[k] : k \in S} : \A k \in S : f[k] <= x, den |-> 1]
    ELSE [num |-> CHOOSE x \in {f[k] : k \in S} : \A k \in S : f[k] >= x, den |-> 1]

\* StepExpansion.fun2par(f): an unknown projection is a ValueError at the
\* first step, and so is np.max or np.min over no node
fun2par(self, f) ==
    LET proj == lower(self.fun2par_projection)
    IN IF self.n_steps = 0 THEN [exc |-> NoExc, ret |-> <<>>]
       ELSE IF proj \notin {"mean", "max", "min"}
       THEN [exc |-> Raise("ValueError", {"Invalid projection option."}), ret |-> <<>>]
       ELSE IF proj # "mean" /\ \E i \in 1 .. self.n_steps : self.indices[i] = {}
       THEN [exc |-> Raise("ValueError", {"zero-size array"}), ret |-> <<>>]
       ELSE [exc |-> NoExc,
             ret |-> [i \in 1 .. self.n_steps |-> projected(f, self.indices[i], proj)]]

\* the grids, projections and step magnitudes handed to StepExpansion
StepGrids ==
    {None, PyList(<<5>>), PyList(<<1, 2, 4>>), PyList(<<0, 2, 4, 6>>)}
        \cup {PyInt(n) : n \in 0 .. MaxGrid + 1}
Projections == {"mean", "MAX", "MiN", "median"}
StepVals == {0 - 1, 2}

NewStepExpansion ==
    \E grid \in StepGrids, n_steps \in 1 .. MaxGrid + 1, proj \in Projections :
        LET o == StepExpansion(grid, n_steps, proj)
        IN /\ geo = None
           /\ gres.op = "init"
           /\ geo' = o.obj
           /\ gres' = DRes("StepExpansion",
                           [grid |-> grid, n_steps |-> n_steps,
                            fun2par_projection |-> proj], o.exc, None, {})
           /\ UNCHANGED <<dist, dres, bm, result, draws, mcmc>>

\* geom.fun2par(geom.par2fun(p))
CallFun2ParPar2Fun ==
    /\ geo.cls = "StepExpansion"
    /\ \E p \in [1 .. geo.n_steps -> StepVals] :
         LET o == fun2par(geo, par2fun(geo, p))
         IN gres' = DRes("fun2par(par2fun(p))", [p |-> p], o.exc, o.ret, {})
    /\ UNCHANGED <<dist, dres, bm, result, draws, mcmc, geo>>

\* what a comparison came to: "True", "False", or the exception it raised
EqOutcome(o) ==
    IF o.exc # NoExc THEN o.exc.type ELSE IF o.ret THEN "True" ELSE "False"

\* geo == g2, then g2 == geo, each on the objects as the call before left
\* them
CallEqBothWays ==
    /\ geo.cls \in GeometryClasses
    /\ \E g2 \in EqOperands :
         \E o1 \in {eq(geo, g2)} :
          \E o2 \in {eq(o1.obj, o1.self)} :
            /\ geo' = o2.obj
            /\ gres' = DRes("== both ways", [obj |-> g2, self |-> geo],
                            IF o1.exc # NoExc THEN o1.exc ELSE o2.exc,
                            PyTuple(<<EqOutcome(o1), EqOutcome(o2)>>), {})
    /\ UNCHANGED <<dist, dres, bm, result, draws, mcmc>>

NextGeom ==
    \/ NewContinuous
    \/ SetGrid
    \/ ReadShapes
    \/ NewSamples
    \/ ReadSamplesGeometry
    \/ SetSamplesGeometry
    \/ BurnThin
    \/ NewStepExpansion
    \/ CallFun2ParPar2Fun

SpecGeom == Init /\ [][NextGeom]_vars

\* geometries that are constructed, named and compared
NextEq ==
    \/ NewComparedGeometry
    \/ NewDiscrete
    \/ ReadVariables
    \/ SetVariables
    \/ AssignGrid
    \/ CallEq
    \/ CallEqBothWays

SpecEq == Init /\ [][NextEq]_vars

(***************************************************************************)
(* Properties of BayesianModel (problem.py), stated on the outcome of the  *)
(* last call and checked under Spec.                                       *)
(***************************************************************************)
GaussianL == isinstance(bm.likelihood, "Gaussian")
GaussianP == isinstance(bm.prior, "Gaussian")
GMRFP == isinstance(bm.prior, "GMRF")
LinearM == isinstance(bm.model, "LinearModel")
DiffP == type(bm.prior) \in {"Cauchy_diff", "Laplace_diff"}

\* the rule of the closed-form path as the documentation words it
ClosedFormRule == GaussianL /\ GaussianP /\ ~GMRFP /\ LinearM

\* the first rule that matches, in the order closed-form, CWMH, pCN
FirstRule ==
    IF ClosedFormRule THEN "closed-form"
    ELSE IF GaussianL /\ DiffP THEN "CWMH"
    ELSE IF GaussianL /\ GaussianP THEN "pCN"
    ELSE "none"

\* C1, as stated: sample_posterior(Ns) takes the closed-form path exactly when
\* the likelihood is a Gaussian, the prior a Gaussian that is not a GMRF and
\* the model a LinearModel; on that path it returns a Samples container with
\* a prior.dim x Ns array and constructs no iterative sampler.  The code
\* raises on that path when Ns = 0 (the print after the loop reads the loop
\* variable) and when the likelihood is a GMRF (it has no Sigma).
C1_ClosedFormReturnsSamples ==
    result.op = "sample_posterior" /\ result.fault = "none" =>
        /\ (result.route = "closed-form") <=> ClosedFormRule
        /\ result.route = "closed-form" =>
             /\ result.exc = NoExc
             /\ result.ret = Samples(ndarray(<<bm.prior.dim, result.Ns>>, "x_s"), None)
             /\ result.sampler = None

\* C2: every Gaussian likelihood + Gaussian prior combination that the
\* closed-form rule does not take (the prior is a GMRF, or the model is not a
\* LinearModel) is dispatched to pCN, built with the prior, the target
\* likelihood.logpdf(data, x) alone, scale 0.02 (2 hundredths) and a zero
\* initial state of length prior.dim, and run as sample(Ns, 0).
C2_pCNDispatch ==
    result.op = "sample_posterior" /\ GaussianL /\ GaussianP /\ (GMRFP \/ ~LinearM) =>
        /\ result.route = "pCN"
        /\ result.sampler = pCN(bm.prior, <<"likelihood.logpdf(data, x)">>, 2,
                                [j \in 0 .. bm.prior.dim - 1 |-> 0])
        /\ result.run = [method |-> "sample", Ns |-> result.Ns, Nb |-> 0]

\* a GMRF prior with a linear model went to pCN and the chain was returned
C2_Witness ==
    /\ result.op = "sample_posterior" /\ result.route = "pCN"
    /\ GaussianL /\ GMRFP /\ LinearM
    /\ result.Ns >= 4 /\ result.exc = NoExc /\ result.ret.cls = "Samples"

\* C3: a Gaussian likelihood with a Cauchy_diff or Laplace_diff prior is
\* dispatched to CWMH whatever the model, with target likelihood.logpdf(data, x)
\* + prior.logpdf(x), scale 0.05 (5 hundredths) and initial state 0.5 (50
\* hundredths) in each of the prior.dim coordinates, and sample_adapt(Ns, Nb)
\* is called with Nb the integer part of Ns/5.
C3_CWMHDispatch ==
    result.op = "sample_posterior" /\ GaussianL /\ DiffP =>
        /\ result.route = "CWMH"
        /\ result.sampler.cls = "CWMH"
        /\ result.sampler.target = <<"likelihood.logpdf(data, x)", "prior.logpdf(x)">>
        /\ result.sampler.scale = [j \in 0 .. bm.prior.dim - 1 |-> 5]
        /\ result.sampler.x0 = [j \in 0 .. bm.prior.dim - 1 |-> 50]
        /\ result.run.method = "sample_adapt"
        /\ result.run.Ns = result.Ns
        /\ 5 * result.run.Nb <= result.Ns /\ result.Ns < 5 * (result.run.Nb + 1)

\* CWMH ran without a model for at least five samples, one of them burn-in
C3_Witness ==
    /\ result.op = "sample_posterior" /\ result.route = "CWMH"
    /\ type(bm.model) = "NoneType" /\ type(bm.prior) = "Cauchy_diff"
    /\ result.Ns >= 5 /\ result.run.Nb = 1 /\ result.exc = NoExc

\* C4: the dispatch is a total, ordered rule table: the route is that of the
\* first matching rule in the order closed-form, CWMH, pCN, and a triple that
\* matches no rule raises NotImplementedError naming the types of model,
\* likelihood and prior, with no collaborator called, no sample drawn and no
\* sampler built; NotImplementedError arises in no other way.
C4_DispatchTable ==
    result.op = "sample_posterior" =>
        /\ result.route = FirstRule
        /\ result.route = "none" =>
             /\ result.exc = Raise("NotImplementedError",
                                   {<<"model", type(bm.model)>>,
                                    <<"likelihood", type(bm.likelihood)>>,
                                    <<"prior", type(bm.prior)>>})
             /\ result.ret = None
             /\ result.calls = <<>>
             /\ result.sampler = None
             /\ draws = 0
        /\ result.exc.type = "NotImplementedError" => result.route = "none"

\* a likelihood that is not Gaussian matched no rule
C4_Witness ==
    /\ result.op = "sample_posterior" /\ result.route = "none"
    /\ type(bm.likelihood) = "Normal"
    /\ result.exc.type = "NotImplementedError"

\* C5: MAP() returns an estimate only when likelihood and prior pass the
\* Gaussian type check and the model is a LinearModel; for every other
\* combination it raises NotImplementedError naming the three types and calls
\* nothing.
C5_MAPOnlyGaussianLinear ==
    result.op = "MAP" =>
        /\ result.exc = NoExc =>
             /\ GaussianL /\ GaussianP /\ LinearM
             /\ result.ret = ndarray(<<bm.prior.dim>>, "x_map")
        /\ ~(GaussianL /\ GaussianP /\ LinearM) =>
             /\ result.exc = Raise("NotImplementedError",
                                   {<<"model", type(bm.model)>>,
                                    <<"likelihood", type(bm.likelihood)>>,
                                    <<"prior", type(bm.prior)>>})
             /\ result.ret = None
             /\ result.calls = <<>>
             /\ draws = 0

\* MAP() was refused for Gaussian distributions that have no linear model
C5_Witness ==
    /\ result.op = "MAP" /\ GaussianL /\ GaussianP /\ ~LinearM
    /\ result.exc.type = "NotImplementedError"

\* C6: a call of MAP(), sample_posterior(Ns) or UQ(), returning or raising,
\* leaves the BayesianModel's likelihood, prior, model and data, and every
\* attribute of those objects, as they were.
C6_NoMutation ==
    [][result'.op \in {"MAP", "sample_posterior", "UQ"} => bm' = bm]_vars

\* UQ() went through the closed-form path, MAP() included, and returned
C6_Witness ==
    /\ result.op = "UQ" /\ result.route = "closed-form" /\ result.exc = NoExc
    /\ "solve" \in {result.calls[i] : i \in DOMAIN result.calls}

\* the call that the injected failure makes raise was made and its body ran
\* (GMRF.logpdf takes one argument: as a likelihood it rejects the call
\* likelihood.logpdf(data, x) before its body runs)
FaultHit ==
    /\ result.fault # "none"
    /\ \E i \in DOMAIN result.calls : result.calls[i] = result.fault
    /\ ~(result.fault = "likelihood.logpdf(data, x)" /\ type(bm.likelihood) = "GMRF")

\* C7: when a call to a collaborator raises during MAP() or
\* sample_posterior(Ns), that error is the one that leaves the operation, the
\* failing call was made once and nothing was called after it, and whenever
\* an error leaves the operation no Samples container is returned.
C7_FailuresPropagate ==
    result.op \in {"MAP", "sample_posterior"} =>
        /\ result.exc # NoExc => result.ret = None
        /\ FaultHit =>
             /\ result.exc = Injected(result.fault)
             /\ result.ret = None
             /\ Cardinality({i \in DOMAIN result.calls :
                               result.calls[i] = result.fault}) = 1
             /\ result.calls[Len(result.calls)] = result.fault

\* prior.logpdf raised inside the CWMH target and the error left sample_posterior
C7_Witness ==
    /\ result.op = "sample_posterior" /\ result.route = "CWMH"
    /\ result.fault = "prior.logpdf(x)"
    /\ result.exc = Injected("prior.logpdf(x)")
    /\ result.calls = <<"likelihood.logpdf(data, x)", "prior.logpdf(x)">>

(***************************************************************************)
(* Properties of the distributions (distribution.py), checked under        *)
(* SpecDist.                                                               *)
(***************************************************************************)
\* the rows the documentation gives the difference operator
DiffRows(bnd, dim) ==
    CASE bnd \in {"zero", "periodic"} -> dim + 1
      [] bnd = "neumann" -> dim - 1
      [] bnd \in {"backward", "none"} -> dim

\* the number of difference terms the value returned by logpdf/pdf adds up or
\* multiplies
TermsCounted ==
    CASE dist.cls = "Cauchy_diff" /\ dres.op = "logpdf" ->
           {-dres.ret.logpi, Cardinality(DOMAIN dres.ret.terms)}
      [] dist.cls = "Cauchy_diff" /\ dres.op = "pdf" ->
           {-dres.ret.pipow, Cardinality(DOMAIN dres.ret.factors)}
      [] dist.cls = "Laplace_diff" /\ dres.op = "logpdf" ->
           {-dres.ret.coef, dres.ret.nterms}
      [] dist.cls = "Laplace_diff" /\ dres.op = "pdf" ->
           {dres.ret.power, dres.ret.nterms}

\* C8: the operator D of a Cauchy_diff or Laplace_diff over a location of
\* length dim has dim columns and dim+1 ('zero', 'periodic'), dim-1
\* ('neumann') or dim ('backward', 'none') rows, and logpdf and pdf run over
\* exactly as many difference terms as D has rows.
C8_DiffRows ==
    dist.cls \in {"Cauchy_diff", "Laplace_diff"} =>
        /\ dist.dim = len(dist.loc)
        /\ dist.D.n = dist.dim
        /\ dist.D.m = DiffRows(dist.bnd, dist.dim)
        /\ DOMAIN dist.D.a = (0 .. dist.D.m - 1) \X (0 .. dist.D.n - 1)
        /\ dres.op \in {"logpdf", "pdf"} => TermsCounted = {dist.D.m}

\* Cauchy_diff(location=zeros(5), scale=1, bndcond='neumann') has a D of 4
\* rows and its logpdf was evaluated
C8_Witness ==
    /\ dist.cls = "Cauchy_diff" /\ dist.loc = [j \in 0 .. 4 |-> 0]
    /\ dist.scale = 1 /\ dist.bnd = "neumann" /\ dist.D.m = 4
    /\ dres.op = "logpdf" /\ dres.ret.logpi = -4

\* C9, as stated: constructing a Cauchy_diff or Laplace_diff with a boundary
\* condition outside {zero, periodic, neumann, backward, none} fails with an
\* error that identifies the boundary-condition parameter (it names the
\* parameter or the offending value), and no object results.  The code fails
\* with the UnboundLocalError of reading the local Dmat, which names neither.
C9_DescriptiveBndcondError ==
    dres.op \in {"Cauchy_diff", "Laplace_diff"} /\ dres.args.bndcond \notin BndConds =>
        /\ dres.exc # NoExc
        /\ dist = None
        /\ "bndcond" \in dres.exc.mentions \/ dres.args.bndcond \in dres.exc.mentions

\* C10: a GMRF constructed with BCs outside {zero, periodic, neumann, none}
\* raises TypeError before a structure matrix or a factorization is built and
\* yields no object; sample(Ns) on a GMRF built with BCs = 'none' raises
\* TypeError, returns nothing and draws no random number.
C10_GMRFInvalidConfiguration ==
    /\ dres.op = "GMRF" /\ dres.args.BCs \notin GMRF_BCs =>
         /\ dres.exc.type = "TypeError"
         /\ dres.built = {}
         /\ dist = None
    /\ dres.op = "sample" /\ dist.cls = "GMRF" /\ dist.BCs = "none" =>
         /\ dres.exc.type = "TypeError"
         /\ dres.ret = None
         /\ draws = 0

\* sample(Ns) was called on a GMRF built with BCs = 'none' and raised
C10_Witness ==
    /\ dres.op = "sample" /\ dist.cls = "GMRF" /\ dist.BCs = "none"
    /\ dres.args.Ns >= 1 /\ dres.exc.type = "TypeError"

\* C11, as stated: every GMRF the constructor accepts has rank, logdet and
\* the Cholesky factor defined when the constructor returns, and logpdf(x)
\* evaluates its formula for every accepted boundary condition.  With
\* BCs = 'none' the constructor sets none of the three and logpdf fails on
\* reading rank.
C11_GMRFFactorizationEager ==
    dist.cls = "GMRF" =>
        /\ {"rank", "logdet", "chol"} \subseteq DOMAIN dist
        /\ dres.op \in {"logpdf", "pdf"} => dres.exc = NoExc

\* A is square and equal to its transpose
IsSymmetric(A) ==
    A.m = A.n /\ \A ij \in DOMAIN A.a : A.a[ij] = A.a[<<ij[2], ij[1]>>]

\* The rank of an integer matrix by fraction-free elimination: in the first
\* remaining column the first remaining row with a non-zero entry is the
\* pivot; a column without one is dropped.
RECURSIVE RankFrom(_, _, _, _)
RankFrom(a, rows, cols, prev) ==
    IF rows = {} \/ cols = {} THEN 0
    ELSE LET c == CHOOSE x \in cols : \A y \in cols : x <= y
             cand == {i \in rows : a[<<i, c>>] # 0}
         IN IF cand = {} THEN RankFrom(a, rows, cols \ {c}, prev)
            ELSE LET i == CHOOSE x \in cand : \A y \in cand : x <= y
                     p == a[<<i, c>>]
                     b == Dense([kj \in (rows \ {i}) \X (cols \ {c}) |->
                                   (p * a[kj] - a[<<kj[1], c>>] * a[<<i, kj[2]>>])
                                     \div prev])
                 IN 1 + RankFrom(b, rows \ {i}, cols \ {c}, p)

matrix_rank(A) == RankFrom(A.a, 0 .. A.m - 1, 0 .. A.n - 1, 1)

\* C12: right after GMRF(mean, prec, N, dom, BCs) with BCs in {zero,
\* periodic, neumann} and N up to MaxN, dim is N (dom 1) or N*N (dom 2), the structure matrix
\* L is a symmetric dim x dim matrix whose rank is the stored rank, which is
\* dim for 'zero' and dim-1 for 'periodic' and 'neumann', where L maps the
\* constant vector to zero.
C12_GMRFRank ==
    /\ dres.op = "GMRF" /\ dist.cls = "GMRF" /\ dist.N <= MaxN
    /\ dist.BCs \in {"zero", "periodic", "neumann"}
    =>
        /\ dist.dim = IF dres.args.dom = 1 THEN dist.N ELSE dist.N * dist.N
        /\ dist.L.m = dist.dim
        /\ IsSymmetric(dist.L)
        /\ dist.rank = matrix_rank(dist.L)
        /\ dist.rank = IF dist.BCs = "zero" THEN dist.dim ELSE dist.dim - 1
        /\ dist.BCs # "zero" =>
             matvec(dist.L, [j \in 0 .. dist.dim - 1 |-> 1])
               = [j \in 0 .. dist.dim - 1 |-> 0]

\* GMRF(mean=zeros(10), prec=1, N=10, dom=1, BCs='zero') has rank 10
C12_Witness ==
    /\ dres.op = "GMRF" /\ dist.cls = "GMRF" /\ dist.BCs = "zero"
    /\ dist.N = 10 /\ dres.args.dom = 1 /\ dist.prec = 1
    /\ dist.mean.v = [j \in 0 .. 9 |-> 0]
    /\ dist.rank = 10

\* the log-determinant of a GMRF was computed from the eigenvalues of eigsh
EigenPath(d) ==
    /\ "L_eigval" \in DOMAIN d
    /\ d.L_eigval.op = "eigsh"
    /\ d.logdet.form = "sum(log(L_eigval))"

\* the log-determinant of a GMRF was computed from the diagonal of the
\* Cholesky factor, regularized for every BCs but 'zero'
CholeskyPath(d) ==
    /\ "L_eigval" \notin DOMAIN d
    /\ d.logdet.form = "2*sum(log(diag(chol)))"
    /\ d.chol.reg = (d.BCs # "zero")

\* C13 (as amended): a GMRF with BCs 'periodic' or 'neumann' computes its
\* log-determinant from the partial eigenvalue decomposition when its
\* dimension is at most 5000 and from the regularized Cholesky diagonal when
\* its dimension is above 5000; the 'zero' case never uses the eigen path.
C13_LogdetPath ==
    dist.cls = "GMRF" /\ dist.BCs \in {"zero", "periodic", "neumann"} =>
        /\ dist.BCs = "zero" => CholeskyPath(dist)
        /\ dist.BCs # "zero" /\ dist.dim <= EigThreshold => EigenPath(dist)
        /\ dist.BCs # "zero" /\ dist.dim > EigThreshold => CholeskyPath(dist)

\* C13 (as stated): the eigen path is taken below dimension 5000 and the
\* regularized Cholesky diagonal is used for dimension 5000 and above.
C13_LogdetPathAsStated ==
    dist.cls = "GMRF" /\ dist.BCs \in {"zero", "periodic", "neumann"} =>
        /\ dist.BCs = "zero" => CholeskyPath(dist)
        /\ dist.BCs # "zero" /\ dist.dim < EigThreshold => EigenPath(dist)
        /\ dist.BCs # "zero" /\ dist.dim >= EigThreshold => CholeskyPath(dist)

C13_Witness ==
    /\ dres.op = "GMRF" /\ dist.cls = "GMRF" /\ dist.BCs = "periodic"
    /\ dist.dim = EigThreshold
    /\ EigenPath(dist)

\* C14: GMRF.sample(Ns) on a GMRF with BCs in {zero, periodic, neumann}
\* returns one length-dim draw per requested sample: an array of dim rows and
\* Ns columns, and for Ns = 1 a single vector of length dim.
C14_GMRFSampleShape ==
    /\ dres.op = "sample" /\ dist.cls = "GMRF"
    /\ dist.BCs \in {"zero", "periodic", "neumann"}
    =>
        /\ dres.exc = NoExc
        /\ dres.ret.shape \in
               IF dres.args.Ns = 1
               THEN {<<dist.dim>>, <<dist.dim, 1>>}
               ELSE {<<dist.dim, dres.args.Ns>>}

\* the attributes of a Gaussian that the constructor computes
GaussianState(d) ==
    <<d.mean, d.std, d.R, d.Sigma, d.L, d.Linv, d.logdet>>

\* C15: Gaussian(mean, std, corrmat) raises at construction when the
\* covariance is not positive definite and otherwise returns an object with
\* Sigma, L, Linv and logdet defined; no later step (logpdf, pdf or sample,
\* with a fixed or a callable mean, returning or raising) changes mean, std,
\* R, Sigma, L, Linv or logdet.
C15_GaussianImmutable ==
    /\ [](dres.op = "Gaussian" =>
            IF IsPosDef(dres.args.corrmat)
            THEN /\ dres.exc = NoExc
                 /\ dist.cls = "Gaussian"
                 /\ {"Sigma", "L", "Linv", "logdet"} \subseteq DOMAIN dist
            ELSE /\ dres.exc.type = "LinAlgError"
                 /\ dist = None)
    /\ [][dist.cls = "Gaussian" =>
            /\ dist'.cls = "Gaussian"
            /\ GaussianState(dist') = GaussianState(dist)]_vars

C15_Witness ==
    /\ dist.cls = "Gaussian" /\ callable(dist.mean)
    /\ dist.R # eye(dist.dim)
    /\ dres.op = "pdf" /\ dres.exc = NoExc /\ Len(dres.args.args) = 1

\* C16: every sampling entry point (Normal.sample, Gamma.sample,
\* Gaussian.sample, GMRF.sample, BayesianModel.sample_posterior) has a
\* parameter for a seed or generator handle, and a sample call that is handed
\* one returns an array drawn from that handle alone, not from the
\* process-wide generator, so that equal parameters and equal handle state
\* give equal arrays whatever else was drawn in the process.
C16_ExplicitGeneratorHandle ==
    dres.op = "sample" /\ "method" \in DOMAIN dres.args =>
        /\ \A cls \in {"Normal", "Gamma", "Gaussian", "GMRF", "BayesianModel"} :
               sample_params(cls) \cap Handles # {}
        /\ dres.exc = NoExc
        /\ dres.ret.v # "random"

(***************************************************************************)
(* Properties of the sampler runs, checked under SpecSampler.              *)
(***************************************************************************)
\* C17: in a run of CWMH.sample_adapt(Ns, Nb) the scale vector changes only
\* in the first Nb iterations: no step of a later iteration changes it, and
\* with Nb = 0 no step does.  A step on coordinate i leaves every other
\* coordinate alone: rejected, the state is the previous one; accepted, only
\* coordinate i takes the proposed value.  No other step moves the state.
C17_CWMHAdaptationFrozen ==
    [][mcmc.cls = "CWMH" /\ mcmc'.cls = "CWMH" =>
        /\ mcmc.k >= mcmc.Nb => mcmc'.scale = mcmc.scale
        /\ mcmc'.i = mcmc.i + 1 =>
              /\ \A j \in DOMAIN mcmc.x : j # mcmc.i => mcmc'.x[j] = mcmc.x[j]
              /\ ~mcmc'.last.accepted => mcmc'.x = mcmc.x
              /\ mcmc'.last.accepted =>
                    mcmc'.x = [mcmc.x EXCEPT ![mcmc.i] = mcmc'.last.x[mcmc.i]]
        /\ mcmc'.i # mcmc.i + 1 => mcmc'.x = mcmc.x]_vars

C17_Witness ==
    /\ mcmc.cls = "CWMH" /\ mcmc.phase = "terminal"
    /\ mcmc.Nb >= 1 /\ mcmc.Ns > mcmc.Nb
    /\ mcmc.scale # zeros(len(mcmc.x))
    /\ mcmc.x # zeros(len(mcmc.x))
    /\ ~mcmc.last.accepted

\* C18: in a run of pCN.sample(Ns, Nb) the scale beta never changes; every
\* iteration draws exactly one prior sample, a fresh one, and leaves the
\* chain either at the proposal built from the previous state and that
\* sample or at the previous state; the finished run holds Ns states, one
\* target evaluation per state and the Ns decisions.
C18_pCNIteration ==
    /\ [][mcmc.cls = "pCN" /\ mcmc'.cls = "pCN" =>
            /\ mcmc'.scale = mcmc.scale
            /\ mcmc'.k = mcmc.k + 1
            /\ mcmc'.draws = mcmc.draws + 1
            /\ mcmc'.xi = [op |-> "prior.sample", k |-> mcmc'.draws]
            /\ \/ mcmc'.x = pCN_proposal(mcmc.x, mcmc.scale, mcmc'.xi)
               \/ mcmc'.x = mcmc.x
            /\ mcmc'.chain = Append(mcmc.chain, mcmc'.x)]_vars
    /\ [](mcmc.cls = "pCN" /\ mcmc.phase = "terminal" =>
            /\ mcmc.k = mcmc.Ns
            /\ Len(mcmc.chain) = mcmc.Ns
            /\ Len(mcmc.target_eval) = mcmc.Ns
            /\ Len(mcmc.acc) = mcmc.Ns
            /\ \A j \in 1 .. mcmc.Ns : mcmc.target_eval[j].x = mcmc.chain[j])

C18_Witness ==
    /\ mcmc.cls = "pCN" /\ mcmc.phase = "terminal" /\ mcmc.Ns = MaxIter
    /\ mcmc.acc[1] /\ ~mcmc.acc[2] /\ mcmc.acc[3]

(***************************************************************************)
(* Properties of Samples and of the geometries, checked under SpecGeom.    *)
(***************************************************************************)
\* the product of the first k axes of a shape
RECURSIVE AxesProduct(_, _)
AxesProduct(shape, k) == IF k = 0 THEN 1 ELSE shape[k] * AxesProduct(shape, k - 1)

NodeCount(g) ==
    IF g.kind = "int" THEN g.v ELSE IF g.kind = "tuple" THEN g.v[1].v ELSE Len(g.v)
ExpectedNodes(g) ==
    IF g.kind = "list" THEN [j \in 0 .. Len(g.v) - 1 |-> g.v[j + 1]]
    ELSE [j \in 0 .. NodeCount(g) - 1 |-> j]

\* all four of par_shape, par_dim, fun_shape and fun_dim are None
NoShapes(g) ==
    /\ par_shape(g) = None /\ par_dim(g) = None
    /\ fun_shape(g) = None /\ fun_dim(g) = None

\* C20: after Continuous1D(grid) or an assignment of grid to it, with grid an
\* int n, a 1-tuple (n,) or a list, the nodes are 0..n-1 (the list itself for
\* a list), par_shape = fun_shape = (n,) and par_dim = fun_dim = n; after
\* Continuous2D((g0, g1)) or such an assignment, par_shape = (n0*n1,),
\* fun_shape = (n0, n1) and par_dim = fun_dim = n0*n1; with grid None, grid
\* and the four shapes and dimensions are None; and what a read of them
\* returns is what the grid held at the read gives.
C20_ContinuousShapes ==
    /\ gres.op \in {"Continuous1D", "Continuous2D", "grid ="} /\ gres.args.grid = None
       => /\ gres.exc = NoExc
          /\ geo.grid = None
          /\ NoShapes(geo)
    /\ /\ \/ gres.op = "Continuous1D"
          \/ gres.op = "grid =" /\ geo.cls = "Continuous1D"
       /\ gres.args.grid \in DimGrids
       =>   LET n == NodeCount(gres.args.grid)
            IN /\ gres.exc = NoExc
               /\ geo.cls = "Continuous1D"
               /\ geo.grid.v = ExpectedNodes(gres.args.grid)
               /\ par_shape(geo) = PyTuple(<<n>>)
               /\ fun_shape(geo) = PyTuple(<<n>>)
               /\ par_dim(geo) = PyInt(n)
               /\ fun_dim(geo) = PyInt(n)
    /\ \/ gres.op = "Continuous2D"
       \/ gres.op = "grid =" /\ geo.cls = "Continuous2D"
       => \A g0, g1 \in DimGrids :
            gres.args.grid = PyTuple(<<g0, g1>>) =>
              LET n0 == NodeCount(g0)
                  n1 == NodeCount(g1)
              IN /\ gres.exc = NoExc
                 /\ geo.cls = "Continuous2D"
                 /\ geo.grid.v[1].v = ExpectedNodes(g0)
                 /\ geo.grid.v[2].v = ExpectedNodes(g1)
                 /\ par_shape(geo) = PyTuple(<<n0 * n1>>)
                 /\ fun_shape(geo) = PyTuple(<<n0, n1>>)
                 /\ par_dim(geo) = PyInt(n0 * n1)
                 /\ fun_dim(geo) = PyInt(n0 * n1)
    /\ gres.op = "shapes"
       => /\ gres.ret.grid = geo.grid
          /\ gres.ret.par_shape = par_shape(geo)
          /\ gres.ret.par_dim = par_dim(geo)
          /\ gres.ret.fun_shape = fun_shape(geo)
          /\ gres.ret.fun_dim = fun_dim(geo)
          /\ gres.ret.par_dim = gres.ret.fun_dim
          /\ (gres.ret.grid = None) = (gres.ret.par_dim = None)

C20_Witness ==
    /\ gres.op = "grid =" /\ gres.exc = NoExc
    /\ geo.cls = "Continuous2D"
    /\ gres.args.grid = PyTuple(<<PyInt(2), PyInt(MaxGrid)>>)
    /\ fun_shape(geo) = PyTuple(<<2, MaxGrid>>)
    /\ par_dim(geo) = PyInt(2 * MaxGrid)

(***************************************************************************)
(* Properties of the names and the equality of geometries, checked under   *)
(* SpecEq; of StepExpansion and Samples.burnthin, checked under SpecGeom;  *)
(* and of the posterior composition and the periodic difference operator,  *)
(* checked under Spec and SpecDist.                                        *)
(***************************************************************************)
\* g2 is an instance of the class of g1, for _DefaultGeometry also a
\* Continuous1D
EqInstance(g1, g2) ==
    \/ g1.cls \in GeomBases(g2.cls)
    \/ g1.cls = "_DefaultGeometry" /\ g2.cls = "Continuous1D"

\* every attribute of g1 is an attribute of g2 with an equal value, once the
\* names g2 has not generated yet are generated
EqSameAttributes(g1, g2) ==
    LET h == variables_get(g2)
        g == IF "variables" \in DOMAIN g1 THEN h.self ELSE g2
    IN /\ "variables" \in DOMAIN g1 => h.exc = NoExc
       /\ \A key \in DOMAIN g1 \ {"cls"} : key \in DOMAIN g /\ g1[key] = g[key]

\* the number of nodes of a grid of a Continuous1D (-1: no grid)
GridSize1D(g) == IF g.grid = None THEN 0 - 1 ELSE g.grid.shape[1]

\* C21: g1 == g2 is True when g2 is an instance of the class of g1 (for
\* _DefaultGeometry also a Continuous1D) and every attribute of g1 equals
\* that attribute of g2, names being generated on g2 first; it is False for
\* Discrete against Continuous1D, for Continuous1D against Continuous2D, for
\* one-dimensional grids of different sizes, and for a None grid against a
\* grid.
C21_GeometryEquality ==
    gres.op = "==" =>
        LET g1 == gres.args.self
            g2 == gres.args.obj
            grids == {"Continuous1D", "_DefaultGeometry"}
        IN /\ EqInstance(g1, g2) /\ EqSameAttributes(g1, g2)
              => gres.exc = NoExc /\ gres.ret = PyBool(TRUE)
           /\ \/ {g1.cls, g2.cls} = {"Discrete", "Continuous1D"}
              \/ {g1.cls, g2.cls} = {"Continuous1D", "Continuous2D"}
              \/ /\ g1.cls \in grids /\ g2.cls \in grids
                 /\ GridSize1D(g1) # GridSize1D(g2)
              => gres.exc = NoExc /\ gres.ret = PyBool(FALSE)

\* the names an int n stands for: "v" when n = 1, else "v0" .. "v(n-1)"
IsIndexedNames(names, n) ==
    /\ Len(names) = n
    /\ n = 1 => names[1] = "v"
    /\ n # 1 => \A j \in 1 .. n : names[j] = "v" \o ToString(j - 1)

\* C23: Discrete(variables) with an int n has the names v0 .. v(n-1), the
\* single name v when n = 1; a list of strings is kept as given; a list with
\* a non-string, or any other type, raises ValueError; and the constructed
\* geometry has par_shape = fun_shape = (len(variables),) and
\* par_dim = len(variables).
C23_DiscreteVariableNames ==
    gres.op = "Discrete" =>
        LET given == gres.args.variables
        IN /\ given \in BadDiscreteVariables
              => gres.exc.type = "ValueError" /\ geo = None
           /\ given \in DiscreteVariables
              => /\ gres.exc = NoExc
                 /\ geo.cls = "Discrete"
                 /\ geo.variables.kind = "list"
                 /\ given.kind = "int"
                    => IsIndexedNames(geo.variables.v, given.v)
                 /\ given.kind = "list" => geo.variables = given
                 /\ par_shape(geo) = PyTuple(<<Len(geo.variables.v)>>)
                 /\ fun_shape(geo) = PyTuple(<<Len(geo.variables.v)>>)
                 /\ par_dim(geo) = PyInt(Len(geo.variables.v))

C23_Witness ==
    /\ gres.op = "Discrete"
    /\ gres.args.variables = PyInt(1)
    /\ geo.cls = "Discrete"
    /\ geo.variables = PyList(<<"v">>)
    /\ par_dim(geo) = PyInt(1)

\* C27: == on two geometries ends with True or False and never raises; two
\* Discrete geometries with different numbers of variables compare as False.
C27_EqualityNeverRaises ==
    gres.op = "==" =>
        LET g1 == gres.args.self
            g2 == gres.args.obj
        IN /\ gres.exc = NoExc
           /\ gres.ret \in {PyBool(TRUE), PyBool(FALSE)}
           /\ /\ g1.cls = "Discrete" /\ g2.cls = "Discrete"
              /\ Len(g1.variables.v) # Len(g2.variables.v)
              => gres.ret = PyBool(FALSE)

\* C28: == on geometries is symmetric in every reachable state: g1 == g2
\* and g2 == g1 come to the same result, whatever names were generated or
\* assigned on either before.
C28_EqualitySymmetric ==
    gres.op = "== both ways" => gres.ret.v[1] = gres.ret.v[2]

\* C29: a Continuous1D or Continuous2D that has variable names has as many
\* names, and as many ids, as its current par_dim, after any grid
\* assignments and reads of variables.
C29_NamesFollowGrid ==
    /\ geo.cls \in {"Continuous1D", "Continuous2D"}
    /\ "variables" \in DOMAIN geo
    /\ gres.op \in {"grid =", "variables"}
    => /\ par_dim(geo) # None
       /\ Len(geo.variables.v) = par_dim(geo).v
       /\ "ids" \in DOMAIN geo
       /\ geo.ids = PyRange(par_dim(geo).v)

\* the nodes a grid handed to a geometry stands for
NodesOf(grid) == create_dimension(grid).ret

IsRegular(nodes) ==
    \A k \in 1 .. nodes.shape[1] - 1 :
        nodes.v[k] - nodes.v[k - 1] = nodes.v[1] - nodes.v[0]

\* the construction of a StepExpansion that C22 is about went through
StepExpansionBuilt ==
    /\ gres.op = "StepExpansion"
    /\ gres.args.grid # None
    /\ gres.args.n_steps <= NodesOf(gres.args.grid).shape[1]
    /\ IsRegular(NodesOf(gres.args.grid))

\* C22: StepExpansion(grid, n_steps) raises ValueError when n_steps exceeds
\* the number of grid points and when the grid is not equally spaced;
\* otherwise par_dim = n_steps, and fun2par(par2fun(p)) = p for every p of
\* length n_steps under the projections mean, max and min, in any case of
\* letters.
C22_StepExpansion ==
    /\ gres.op = "StepExpansion" /\ gres.args.grid # None
       => LET nodes == NodesOf(gres.args.grid)
          IN /\ gres.args.n_steps > nodes.shape[1] \/ ~IsRegular(nodes)
                => gres.exc.type = "ValueError" /\ geo = None
             /\ StepExpansionBuilt
                => /\ gres.exc = NoExc
                   /\ geo.cls = "StepExpansion"
                   /\ par_dim(geo) = PyInt(gres.args.n_steps)
    /\ /\ gres.op = "fun2par(par2fun(p))"
       /\ geo.fun2par_projection \in {"mean", "MAX", "MiN"}
       => /\ gres.exc = NoExc
          /\ Len(gres.ret) = geo.n_steps
          /\ \A i \in 1 .. geo.n_steps :
                /\ gres.ret[i].den # 0
                /\ gres.ret[i].num = gres.args.p[i] * gres.ret[i].den

\* C24: without an injected failure every MAP() ends in a returned estimate
\* or in NotImplementedError, and neither MAP nor sample_posterior fails on
\* a missing attribute: mean and Sigma are there for every likelihood and
\* prior that passes the Gaussian check, a GMRF included.
C24_MAPOutcomes ==
    result.op \in {"MAP", "sample_posterior"} /\ result.fault = "none" =>
        /\ result.exc.type # "AttributeError"
        /\ result.op = "MAP" =>
             \/ result.exc = NoExc /\ result.ret # None
             \/ result.exc.type = "NotImplementedError"

\* C25: on the closed-form path, with a likelihood and a prior that have
\* their covariances, sample_posterior(Ns) returns Samples of a
\* prior.dim x Ns array for every Ns >= 0, Ns = 0 included; the printing of
\* the progress raises nothing.
C25_ClosedFormAnyNs ==
    /\ result.op = "sample_posterior"
    /\ result.fault = "none"
    /\ result.route = "closed-form"
    /\ "Sigma" \in DOMAIN bm.likelihood
    /\ "Sigma" \in DOMAIN bm.prior
    => /\ result.exc = NoExc
       /\ result.ret = Samples(ndarray(<<bm.prior.dim, result.Ns>>, "x_s"), None)

\* C26: a Samples of a dim x Ns array keeps array and geometry consistent
\* through reads of the geometry and calls of burnthin: the first axis of
\* the array is the par_dim of the geometry derived from it, burnthin
\* thinning the last axis only.
C26_SamplesArrayGeometry ==
    /\ geo.cls = "Samples"
    /\ Len(geo.samples.shape) = 2
    /\ geo.geometry # None
    /\ geo.geometry.cls = "_DefaultGeometry"
    => par_dim(geo.geometry) = PyInt(geo.samples.shape[1])

\* row r of D is the difference x[k] - x[k-1], indices taken modulo the
\* number of columns
EncodesDifference(D, r, k) ==
    \A j \in 0 .. D.n - 1 :
        D.a[<<r, j>>] = (IF j = k THEN 1 ELSE 0)
                          - (IF j = (k + D.n - 1) % D.n THEN 1 ELSE 0)

IsCirculant(S) ==
    /\ S.m = S.n
    /\ \A i \in 0 .. S.n - 1 : S.a[<<i, i>>] = 2
    /\ \A i, j \in 0 .. S.n - 1 :
          S.a[<<(i + 1) % S.n, (j + 1) % S.n>>] = S.a[<<i, j>>]

\* the one-dimensional periodic difference operator of three or more
\* columns that the distribution holds
HasPeriodicD ==
    \/ /\ dist.cls = "GMRF" /\ dist.BCs = "periodic"
       /\ dist.N <= MaxN /\ dist.dim = dist.N /\ dist.N >= 3
    \/ /\ dist.cls \in {"Cauchy_diff", "Laplace_diff"} /\ dist.bnd = "periodic"
       /\ dist.dim >= 3

\* C30: with the periodic boundary condition the difference operator has
\* each of the N cyclic neighbour differences in exactly one row, and
\* D^T D is circulant with 2 on the diagonal, for the GMRF (dom = 1, N >= 3)
\* and for Cauchy_diff and Laplace_diff.
C30_PeriodicCirculant ==
    HasPeriodicD =>
        /\ \A k \in 0 .. dist.D.n - 1 :
              Cardinality({r \in 0 .. dist.D.m - 1 : EncodesDifference(dist.D, r, k)}) = 1
        /\ IsCirculant(matmul(transpose(dist.D), dist.D))
        /\ dist.cls = "GMRF" => IsCirculant(dist.L)

====
